---- MODULE Spec2Model ----
(***************************************************************************)
(* A model of the lumberjack v3 Roller (src/unnamed/part_004): the        *)
(* size-bounded, self-rotating log writer and its background mill.        *)
(*                                                                         *)
(* The directory is a function from file names to file contents.  A file  *)
(* content is the sequence of chunks appended to it; the chunk of a       *)
(* Write is tagged with the number of the call that wrote it (NewRoller   *)
(* is call 1), the bytes a file held before the Roller was built carry    *)
(* the tag 0 in the primary file and a negative tag in a backup.          *)
(* Time is counted in milliseconds, the precision of backupTimeFormat;    *)
(* the clock is read by currentTime() and every reading is at least the   *)
(* one before it.                                                          *)
(* The calls of the public API run under r.mu and are one step each; the  *)
(* mill goroutine takes no lock and is one step per system call batch:    *)
(* the directory scan, each removal and each compression.  The only file  *)
(* system call of a locked section that touches a backup name is the one  *)
(* rename in openNew, so the one-step sections lose no interleaving with  *)
(* the mill.  File system calls succeed unless `faults` names their kind: *)
(* FaultSpec lets writes and the opening for appending fail, CompressSpec *)
(* takes compressLogFile one system call at a time, each free to fail,    *)
(* RotateFaultSpec lets the system calls of a rotation fail, ResumeSpec   *)
(* starts over what an interrupted compression left, PlainSpec has no     *)
(* retention and no fault, AgeSpec retains by age in several time zones.  *)
(* The v1 Logger of part_003 has its own specification, LoggerSpec.       *)
(***************************************************************************)
EXTENDS Integers, Sequences, FiniteSets, TLC

\* ---------------------------------------------------------------- bounds
MaxSizeBound == 2
MaxCalls == 4
MaxTime == 2
MaxBackupsBound == 2
MaxAgeBound == 1
NumCallers == 2

\* ------------------------------------------------------------- constants
ErrNone == "nil"
ErrWriteTooLong == "write exceeds max file length"
ErrInvalid == "invalid argument"
ErrMaxSize == "max size cannot be 0"
ErrFilename == "filename cannot be empty"
ErrNoSpace == "no space left on device"
ErrFileClose == "close: input/output error"
ErrMkdir == "can't make directories for new logfile"
ErrRename == "can't rename log file"
ErrOpenNew == "can't open new logfile"
ErrRemove == "remove: operation not permitted"
ErrOpenLog == "failed to open log file"
ErrStatLog == "failed to stat log file"
ErrOpenGz == "failed to open compressed log file"
ErrCompress == "failed to compress log file"

VARIABLES
    filename,     \* Roller.filename (the argument of NewRoller)
    maxSize,      \* Roller.maxSize
    maxAge,       \* Roller.maxAge, in milliseconds
    maxBackups,   \* Roller.maxBackups
    localTime,    \* Roller.localTime
    compress,     \* Roller.compress
    size,         \* Roller.size
    file,         \* Roller.file: "nil" or "open" (a handle on the primary)
    fds,          \* the number of handles on the primary the process has open
    millCh,       \* Roller.millCh: number of signals buffered (capacity 1)
    startMill,    \* Roller.startMill: TRUE once the sync.Once has fired
    millRuns,     \* the number of millRun goroutines started so far
    roller,       \* TRUE once NewRoller has returned a Roller
    dir,          \* the log directory: file name -> file content
    perm,         \* the permission mode of each entry of the directory
    umask,        \* the file mode creation mask of the process
    now,          \* the last reading of currentTime(), in milliseconds
    tzOffset,     \* offset of the local time zone, in milliseconds
    millPc,       \* position of the millRun goroutine
    millRm,       \* millRunOnce: the part of `remove` still to be removed
    millCp,       \* millRunOnce: the part of `compress` still to be done
    readDirs,     \* the number of directory listings millRunOnce has made
    passes,       \* the number of maintenance passes started so far
    millSrc,      \* compressLogFile: the file that its handle f is open on
    millErr,      \* millRunOnce: err, the first error of the pass
    errCompress,  \* millRunOnce: what compressLogFile returned last
    faults,       \* the system calls that may fail, by kind
    hist,         \* the calls made so far, each with its result
    mu,           \* Roller.mu: 0, or the caller that holds it
    call,         \* for each concurrent caller, the call it is in
    order,        \* the calls that have locked r.mu, in the order of locking
    seq,          \* what those calls leave when run one after the other
    logger,       \* the v1 Logger (src/unnamed/part_003): its fields
    deleting      \* the deleteAll goroutines of the v1 Logger: files to remove

vars == <<filename, maxSize, maxAge, maxBackups, localTime, compress, size,
          file, fds, millCh, startMill, millRuns, roller, dir, perm, umask,
          now, tzOffset, millPc, millRm, millCp, readDirs, passes, millSrc,
          millErr, errCompress,          faults,
          hist, mu, call, order, seq, logger, deleting>>

lockVars == <<mu, call, order, seq>>

\* What the maintenance task is counted by.
millLog == <<readDirs, passes, millSrc, millErr, errCompress>>

\* The v1 Logger and its goroutines.
logVars == <<logger, deleting>>

\* What no step changes: the arguments of NewRoller and the environment.
config == <<filename, maxSize, maxAge, maxBackups, localTime, compress,
            tzOffset, umask, faults>>

\* ------------------------------------------------------------ file names
Primary == [k |-> "log", t |-> 0]
Bak(t) == [k |-> "bak", t |-> t]
Gz(t) == [k |-> "gz", t |-> t]

\* ---------------------------------------------------------- file content
RECURSIVE SumLen(_)
SumLen(s) == IF s = <<>> THEN 0 ELSE Head(s).n + SumLen(Tail(s))

FileSize(f) == SumLen(f.data)

Raw(data) == [data |-> data, enc |-> "raw"]

EmptyFile == Raw(<<>>)

Gzip(f) == [data |-> f.data, enc |-> "gzip"]

\* A compressed file that is not yet written to its end and closed.
Part(data) == [data |-> data, enc |-> "part"]

\* No file: what a handle that is not open reads.
NoFile == [data |-> <<>>, enc |-> "nil", mode |-> {}]

\* A directory entry that is itself a directory.
Directory == [data |-> <<>>, enc |-> "dir"]

IsDir(f) == f.enc = "dir"

\* Permission modes are sets of bits: "u" stands for the bits of 0600,
\* "g" for the bits of 0066.
DefaultMode == {"u"}

\* The mode of a file that os.OpenFile creates with O_CREATE and mode m.
Create(m) == m \ umask

Exists(d, name) == name \in DOMAIN d

Put(d, name, f) ==
    [x \in DOMAIN d \cup {name} |-> IF x = name THEN f ELSE d[x]]

Remove(d, name) == [x \in DOMAIN d \ {name} |-> d[x]]

Rename(d, old, new) == Put(Remove(d, old), new, d[old])

WriteChunk(f, chunk) ==
    IF chunk.n = 0 THEN f ELSE [f EXCEPT !.data = @ \o <<chunk>>]

\* --------------------------------------------------------- naming scheme
\* t.Format(backupTimeFormat): the wall clock reading of instant t, in the
\* local zone if requested, otherwise in UTC.
Format(t, local) == IF local THEN t + tzOffset ELSE t

\* time.Parse(backupTimeFormat, ts): the instant whose UTC wall clock
\* reading is ts.
Parse(ts) == ts

backupName(t, local) == Bak(Format(t, local))

\* Names that are neither the primary file's nor a backup's: one without
\* the prefix (bar-<stamp>.log), one without the extension
\* (foo-<stamp>.txt), one with no time stamp between the two (foo-old.log).
NoPrefix == [k |-> "noprefix", t |-> 0]
NoExt == [k |-> "noext", t |-> 0]
NoStamp == [k |-> "nostamp", t |-> 0]

\* strings.HasPrefix(filename, prefix), prefix being "foo-".
HasPrefix(name) == name.k \in {"bak", "gz", "noext", "nostamp"}

\* strings.HasSuffix(filename, ext), ext being ".log" or, if gz,
\* ".log" + compressSuffix.
HasSuffix(name, gz) ==
    IF gz THEN name.k = "gz" ELSE name.k \in {"log", "bak", "noprefix", "nostamp"}

\* time.Parse(backupTimeFormat, ts) returns no error for what is left of
\* the name.
ParseOK(name) == name.k \in {"bak", "gz"}

\* timeFromName returns no error.
timeFromNameOK(name, gz) ==
    HasPrefix(name) /\ HasSuffix(name, gz) /\ ParseOK(name)

\* timeFromName with the extension, then with the extension + compressSuffix.
IsBackupName(name) == timeFromNameOK(name, FALSE) \/ timeFromNameOK(name, TRUE)

timeFromName(name) == Parse(name.t)

\* The name without the compressSuffix.
TrimGz(name) == IF name.k = "gz" THEN Bak(name.t) ELSE name

\* ------------------------------------------------------- rotation engine
\* The operations below work on a record of the fields they change, of
\* the number of rotations made (rot) and of whether the caller is left
\* waiting on a channel operation (blocked).
MillChCap == 1

\* What is known of the call of chown in openNew: the path and the mode
\* of the os.FileInfo it is given, whether a file is at that path and
\* whether the primary file has been renamed.  NoChown: it is not called.
NoChown ==
    [name |-> [k |-> "none", t |-> 0], mode |-> {}, there |-> FALSE,
     moved |-> FALSE]

\* chown (chown.go): does nothing and returns nil.
chown(name, info) == ErrNone

Cur == [size |-> size, file |-> file, fds |-> fds, millCh |-> millCh,
        startMill |-> startMill, millRuns |-> millRuns, millPc |-> millPc,
        dir |-> dir, perm |-> perm, now |-> now, rot |-> 0,
        blocked |-> FALSE, fail |-> {}, err |-> ErrNone, chown |-> NoChown]

\* The same, the system calls of the kinds of f failing in the call.
CurWith(f) == [Cur EXCEPT !.fail = f]

\* The kinds of system calls of a rotation: r.file.Close, os.MkdirAll,
\* os.Rename and the os.OpenFile of the new file.
RotateFaults == {"closelog", "mkdir", "rename", "openlog"}

\* The kinds that may fail in one call of the API.
Failing == SUBSET (faults \cap RotateFaults)

\* The readings currentTime() may return after the reading t.
currentTime(t) == t..MaxTime

\* Mutant: the length check of Write lets one byte too many through.
WriteTooLongOffByOne(n) == n > maxSize + 1

WriteTooLong(n) == n > maxSize

\* Mutant: Write rotates one byte too late.
OverMaxSizeLate(sz, writeLen) == sz + writeLen > maxSize + 1

\* Mutant: Write rotates as soon as the file would be full.
OverMaxSizeOrFull(sz, writeLen) == sz + writeLen >= maxSize

OverMaxSize(sz, writeLen) == sz + writeLen > maxSize

\* Mutant: NewRoller rotates a file that has one byte of room left.
FillsMaxSizeEarly(sz, writeLen) == sz + writeLen >= maxSize - 1

\* Mutant: NewRoller resumes a file that is exactly full.
FillsMaxSizeStrict(sz, writeLen) == sz + writeLen > maxSize

FillsMaxSize(sz, writeLen) == sz + writeLen >= maxSize

\* Mutant: mill starts a millRun goroutine at every call.
millNoOnce(s) ==
    [s EXCEPT !.startMill = TRUE,
              !.millRuns = @ + 1,
              !.millPc = IF s.startMill THEN @ ELSE "idle",
              !.millCh = IF s.millCh < MillChCap THEN s.millCh + 1 ELSE @]

\* Mutant: mill sends without a default case and waits while the channel
\* is full.
millBlocking(s) ==
    [s EXCEPT !.startMill = TRUE,
              !.millRuns = IF s.startMill THEN @ ELSE @ + 1,
              !.millPc = IF s.startMill THEN @ ELSE "idle",
              !.millCh = IF s.millCh < MillChCap THEN s.millCh + 1 ELSE @,
              !.blocked = @ \/ s.millCh >= MillChCap]

\* Mutant: the channel of mill has room for every trigger.
millQueues(s) ==
    [s EXCEPT !.startMill = TRUE,
              !.millRuns = IF s.startMill THEN @ ELSE @ + 1,
              !.millPc = IF s.startMill THEN @ ELSE "idle",
              !.millCh = @ + 1]

\* Mutant: mill posts no trigger while a pass is executing.
millDropsWhenBusy(s) ==
    [s EXCEPT !.startMill = TRUE,
              !.millRuns = IF s.startMill THEN @ ELSE @ + 1,
              !.millPc = IF s.startMill THEN @ ELSE "idle",
              !.millCh = IF s.millCh < MillChCap /\ s.millPc \notin {"scan", "run"}
                         THEN s.millCh + 1 ELSE @]

mill(s) ==
    [s EXCEPT !.startMill = TRUE,
              !.millRuns = IF s.startMill THEN @ ELSE @ + 1,
              !.millPc = IF s.startMill THEN @ ELSE "idle",
              !.millCh = IF s.millCh < MillChCap THEN s.millCh + 1 ELSE @]

\* Mutant: close forgets the recorded size with the handle.
closeResetsSize(s) ==
    [s EXCEPT !.file = "nil", !.size = 0,
              !.fds = IF s.file = "nil" THEN @ ELSE @ - 1]

close(s) ==
    [s EXCEPT !.file = "nil", !.fds = IF s.file = "nil" THEN @ ELSE @ - 1,
              !.err = IF s.file /= "nil" /\ "closelog" \in s.fail
                        THEN ErrFileClose ELSE @]

\* openNew, rotate and openExistingOrNew take the reading t that
\* currentTime() returns if backupName is reached.
\* Mutant: openNew calls chown before it renames the primary file.
openNewChownFirst(s, t) ==
    LET found == Exists(s.dir, Primary)
        mode == IF found THEN s.perm[Primary] ELSE DefaultMode
        newname == backupName(t, localTime)
        moved == IF found THEN Rename(s.dir, Primary, newname) ELSE s.dir
        movedPerm == IF found THEN Rename(s.perm, Primary, newname)
                     ELSE s.perm
        called == IF found
                    THEN [name |-> Primary, mode |-> mode,
                          there |-> Exists(s.dir, Primary),
                          moved |-> FALSE]
                  ELSE s.chown
    IN  IF "mkdir" \in s.fail THEN [s EXCEPT !.err = ErrMkdir]
        ELSE IF found /\ "rename" \in s.fail THEN [s EXCEPT !.err = ErrRename]
        ELSE IF found /\ chown(Primary, mode) /= ErrNone
          THEN [s EXCEPT !.dir = moved,
                         !.perm = movedPerm,
                         !.now = t,
                         !.chown = called,
                         !.err = chown(Primary, mode)]
        ELSE IF "openlog" \in s.fail
          THEN [s EXCEPT !.dir = moved,
                         !.perm = movedPerm,
                         !.now = IF found THEN t ELSE @,
                         !.chown = called,
                         !.err = ErrOpenNew]
        ELSE [s EXCEPT !.dir = Put(moved, Primary, EmptyFile),
                       !.perm = Put(movedPerm, Primary, Create(mode)),
                       !.now = IF found THEN t ELSE @,
                       !.chown = called,
                       !.file = "open",
                       !.fds = @ + 1,
                       !.size = 0]

openNew(s, t) ==
    LET found == Exists(s.dir, Primary)
        mode == IF found THEN s.perm[Primary] ELSE DefaultMode
        newname == backupName(t, localTime)
        moved == IF found THEN Rename(s.dir, Primary, newname) ELSE s.dir
        movedPerm == IF found THEN Rename(s.perm, Primary, newname)
                     ELSE s.perm
        called == IF found
                    THEN [name |-> Primary, mode |-> mode,
                          there |-> Exists(moved, Primary),
                          moved |-> Exists(moved, newname)]
                  ELSE s.chown
    IN  IF "mkdir" \in s.fail THEN [s EXCEPT !.err = ErrMkdir]
        ELSE IF found /\ "rename" \in s.fail THEN [s EXCEPT !.err = ErrRename]
        ELSE IF found /\ chown(Primary, mode) /= ErrNone
          THEN [s EXCEPT !.dir = moved,
                         !.perm = movedPerm,
                         !.now = t,
                         !.chown = called,
                         !.err = chown(Primary, mode)]
        ELSE IF "openlog" \in s.fail
          THEN [s EXCEPT !.dir = moved,
                         !.perm = movedPerm,
                         !.now = IF found THEN t ELSE @,
                         !.chown = called,
                         !.err = ErrOpenNew]
        ELSE [s EXCEPT !.dir = Put(moved, Primary, EmptyFile),
                       !.perm = Put(movedPerm, Primary, Create(mode)),
                       !.now = IF found THEN t ELSE @,
                       !.chown = called,
                       !.file = "open",
                       !.fds = @ + 1,
                       !.size = 0]

\* Mutant: rotate leaves an open empty file as it is.
rotateUnlessEmpty(s, t) ==
    IF s.file = "open" /\ s.size = 0 THEN s
    ELSE LET m == mill(openNew(close(s), t)) IN [m EXCEPT !.rot = @ + 1]

\* Mutant: rotate opens the new file over the handle it holds.
rotateNoClose(s, t) == LET m == mill(openNew(s, t)) IN [m EXCEPT !.rot = @ + 1]

\* Mutant: rotate posts the trigger whether openNew succeeds or not.
rotateAlwaysMills(s, t) ==
    LET c == close(s)
        o == openNew(c, t)
    IN  IF c.err /= ErrNone THEN c
        ELSE IF o.err /= ErrNone THEN mill(o)
        ELSE [mill(o) EXCEPT !.rot = @ + 1]

rotate(s, t) ==
    LET c == close(s)
        o == openNew(c, t)
    IN  IF c.err /= ErrNone THEN c
        ELSE IF o.err /= ErrNone THEN o
        ELSE [mill(o) EXCEPT !.rot = @ + 1]

\* Mutant: a file that is resumed is taken to be empty.
openExistingOrNewFromZero(s, writeLen, t) ==
    LET m == mill(s)
    IN  IF ~Exists(m.dir, Primary) THEN openNew(m, t)
        ELSE IF FillsMaxSize(FileSize(m.dir[Primary]), writeLen)
          THEN rotate(m, t)
        ELSE IF "append" \in m.fail THEN openNew(m, t)
        ELSE [m EXCEPT !.file = "open", !.fds = @ + 1, !.size = 0]

\* Mutant: openExistingOrNew leaves the start of the mill to the first
\* rotation.
openExistingOrNewLazy(s, writeLen, t) ==
    IF ~Exists(s.dir, Primary) THEN openNew(s, t)
    ELSE IF FillsMaxSize(FileSize(s.dir[Primary]), writeLen)
      THEN rotate(s, t)
    ELSE IF "append" \in s.fail THEN openNew(s, t)
    ELSE [s EXCEPT !.file = "open", !.fds = @ + 1,
                   !.size = FileSize(s.dir[Primary])]

\* The file is resumed unless os.OpenFile with O_APPEND fails, in which
\* case openNew moves it away.
openExistingOrNew(s, writeLen, t) ==
    LET m == mill(s)
    IN  IF ~Exists(m.dir, Primary) THEN openNew(m, t)
        ELSE IF FillsMaxSize(FileSize(m.dir[Primary]), writeLen)
          THEN rotate(m, t)
        ELSE IF "append" \in m.fail THEN openNew(m, t)
        ELSE [m EXCEPT !.file = "open", !.fds = @ + 1,
                       !.size = FileSize(m.dir[Primary])]

\* ------------------------------------------------------ retention policy
\* byFormatTime.Less: newest embedded timestamp first.
Less(a, b) == timeFromName(a) > timeFromName(b)

\* The orders sort.Sort(byFormatTime(..)) may leave the names of S in: the
\* sort is not stable, names with equal timestamps come in either order.
RECURSIVE Sorted(_)
Sorted(S) ==
    IF S = {} THEN {<<>>}
    ELSE UNION {{<<x>> \o q : q \in Sorted(S \ {x})} :
                  x \in {y \in S : \A z \in S : ~Less(z, y)}}

\* Mutant: oldLogFiles does not skip the directories.
oldLogFilesWithDirs(d) == Sorted({name \in DOMAIN d : IsBackupName(name)})

\* oldLogFiles: the names of the files of the directory that are backup
\* names, in one of those orders.
oldLogFiles(d) ==
    Sorted({name \in DOMAIN d : ~IsDir(d[name]) /\ IsBackupName(name)})

\* The elements q[i] with i in I, in the order of q.
RECURSIVE Pick(_, _, _)
Pick(q, I, i) ==
    IF i > Len(q) THEN <<>>
    ELSE (IF i \in I THEN <<q[i]>> ELSE <<>>) \o Pick(q, I, i + 1)

\* Mutant: the maxBackups loop counts files, not logical backups.
OverCountFiles(files) ==
    IF maxBackups > 0 /\ maxBackups < Len(files)
    THEN {i \in 1..Len(files) : i > maxBackups}
    ELSE {}

\* The indices the maxBackups loop appends to `remove`.
OverCount(files) ==
    IF maxBackups > 0 /\ maxBackups < Len(files)
    THEN {i \in 1..Len(files) :
            Cardinality({TrimGz(files[j]) : j \in 1..i}) > maxBackups}
    ELSE {}

\* Mutant: the maxAge loop also removes a backup made exactly at the cutoff.
TooOldInclusive(files, t) ==
    IF maxAge > 0
    THEN {i \in 1..Len(files) : timeFromName(files[i]) <= t - maxAge}
    ELSE {}

\* The indices the maxAge loop appends to `remove`.
TooOld(files, t) ==
    IF maxAge > 0
    THEN {i \in 1..Len(files) : timeFromName(files[i]) < t - maxAge}
    ELSE {}

\* The `remove` and `compress` lists millRunOnce builds from a scan result.
\* t is the reading of currentTime() the maxAge cutoff is computed from.
RemoveList(files, t) ==
    LET byCount == Pick(files, OverCount(files), 1)
        rest == Pick(files, (1..Len(files)) \ OverCount(files), 1)
    IN  byCount \o Pick(rest, TooOld(rest, t), 1)

\* Mutant: every uncompressed file of the scan is compressed, also those
\* that are to be removed.
CompressListAll(files, t) ==
    IF compress THEN SelectSeq(files, LAMBDA f : f.k /= "gz") ELSE <<>>

CompressList(files, t) ==
    LET rest == Pick(files, (1..Len(files)) \ OverCount(files), 1)
        kept == Pick(rest, (1..Len(rest)) \ TooOld(rest, t), 1)
    IN  IF compress THEN SelectSeq(kept, LAMBDA f : f.k /= "gz") ELSE <<>>

\* Mutant: compressLogFile leaves the source where it is.
compressKeepsSource(d, src) ==
    IF Exists(d, src) THEN Put(d, Gz(src.t), Gzip(d[src])) ELSE d

\* compressLogFile(src, src + compressSuffix): it returns with nothing
\* done if the source is not there or if the destination cannot be opened
\* for writing because it is a directory; otherwise all system calls
\* succeed.
compressLogFile(d, src) ==
    IF Exists(d, src) /\ ~(Exists(d, Gz(src.t)) /\ IsDir(d[Gz(src.t)]))
    THEN Put(Remove(d, src), Gz(src.t), Gzip(d[src]))
    ELSE d

\* ------------------------------------------------------------------ Init
\* The nil *os.File of the v1 Logger, and the zero value of the Logger.
NilFile ==
    [open |-> FALSE, name |-> [k |-> "v1", t |-> 0], off |-> 0, app |-> FALSE]

NoLogger ==
    [MaxSize |-> 0, MaxAge |-> 0, MaxBackups |-> 0, LocalTime |-> FALSE,
     size |-> 0, file |-> NilFile]

\* The record of a Roller that is not built: zero values, no directory.
NoRoller ==
    [size |-> 0, file |-> "nil", fds |-> 0, millCh |-> 0,
     startMill |-> FALSE, millRuns |-> 0, millPc |-> "none", dir |-> <<>>,
     perm |-> <<>>, now |-> 0, rot |-> 0, blocked |-> FALSE, fail |-> {},
     err |-> ErrNone, chown |-> NoChown]

\* The goroutines that call Write, Rotate and Close on the one Roller.
Callers == 1..NumCallers

\* What is known of a caller's call: where it is (pc), the operation, the
\* length of p, the number of the call, the clock reading of its rotation
\* and what it has to return.
IdleCall ==
    [pc |-> "idle", op |-> "none", n |-> 0, id |-> 0, t |-> 0, rot |-> 0,
     rn |-> 0, err |-> ErrNone]

\* What the directory holds before the Roller is built: files of an
\* earlier run.
Preexisting(n) == IF n = 0 THEN EmptyFile ELSE Raw(<<[w |-> 0, n |-> n]>>)

OldBackup(name) ==
    [data |-> <<[w |-> -1 - name.t, n |-> 1]>>,
     enc |-> IF name.k = "gz" THEN "gzip" ELSE "raw"]

\* The directories with some of the backups of `names` and no primary
\* file or one of a size of `sizes`.
InitDirs(names, sizes) ==
    {[x \in B \cup P |-> IF x = Primary THEN Preexisting(n) ELSE OldBackup(x)] :
        B \in SUBSET names,
        P \in SUBSET {Primary},
        n \in sizes}

TZOffset == 1

\* The options the Roller is built with: the retention policies are one
\* that removes nothing, one by count, one by age with compression.
Policies ==
    {[maxBackups |-> 0, maxAge |-> 0, compress |-> FALSE, localTime |-> FALSE],
     [maxBackups |-> 1, maxAge |-> 0, compress |-> FALSE, localTime |-> FALSE],
     [maxBackups |-> 0, maxAge |-> MaxAgeBound, compress |-> TRUE,
      localTime |-> TRUE]}

\* The state before NewRoller is called: its arguments, the directory, the
\* clock, the offset of time.Local, which is one of `zones` (it matters
\* with localTime only), and the zero value of every field of the Roller.
InitZone(names, sizes, opts, dirs, zones) ==
    /\ filename \in names
    /\ maxSize \in sizes
    /\ \E opt \in opts :
          /\ maxAge = opt.maxAge
          /\ maxBackups = opt.maxBackups
          /\ localTime = opt.localTime
          /\ compress = opt.compress
    /\ tzOffset \in IF localTime THEN zones ELSE {0}
    /\ size = 0
    /\ file = "nil"
    /\ fds = 0
    /\ millCh = 0
    /\ startMill = FALSE
    /\ millRuns = 0
    /\ roller = FALSE
    /\ dir \in dirs
    /\ now = 1
    /\ millPc = "none"
    /\ millRm = <<>>
    /\ millCp = <<>>
    /\ readDirs = 0
    /\ passes = 0
    /\ millSrc = NoFile
    /\ millErr = ErrNone
    /\ errCompress = ErrNone
    /\ hist = <<>>
    /\ mu = 0
    /\ call = [c \in Callers |-> IdleCall]
    /\ order = <<>>
    /\ seq = NoRoller

\* The same in the time zone TZOffset east of UTC.
InitEnv(names, sizes, opts, dirs) ==
    InitZone(names, sizes, opts, dirs, {TZOffset})

\* The same, every file having the default mode and nothing being masked.
InitWith(names, sizes, opts, dirs) ==
    /\ InitEnv(names, sizes, opts, dirs)
    /\ perm = [x \in DOMAIN dir |-> DefaultMode]
    /\ umask = {}
    /\ faults = {}
    /\ logger = NoLogger
    /\ deleting = <<>>

Init ==
    InitWith({"", "foo.log"}, {0, MaxSizeBound}, Policies,
             InitDirs({Bak(0), Bak(1)},
                      {0, MaxSizeBound - 1, MaxSizeBound, MaxSizeBound + 1}))

\* --------------------------------------------------------------- actions
\* What hist records of a call: the operation; n, the length of p for
\* Write and for NewRoller the size of the primary file it found (-1 for
\* none); rot, the number of rotations the call made; sz, the recorded
\* size it left; rn and err, the count and the error it returned; chown,
\* the call of chown it made.
Entry(op, n, s, rn, err) ==
    [op |-> op, n |-> n, rot |-> s.rot, sz |-> s.size, rn |-> rn, err |-> err,
     chown |-> s.chown]

Found == IF Exists(dir, Primary) THEN FileSize(dir[Primary]) ELSE -1

\* The call returns, which it does not while it waits on a channel.
Return(op, n, s, rn, err) ==
    /\ ~s.blocked
    /\ size' = s.size
    /\ file' = s.file
    /\ fds' = s.fds
    /\ millCh' = s.millCh
    /\ startMill' = s.startMill
    /\ millRuns' = s.millRuns
    /\ millPc' = s.millPc
    /\ dir' = s.dir
    /\ perm' = s.perm
    /\ now' = s.now
    /\ hist' = Append(hist, Entry(op, n, s, rn, err))

\* Mutant: NewRoller accepts a maxSize of 0.
InvalidMaxSizeNegative == maxSize < 0

InvalidMaxSize == maxSize <= 0

\* NewRoller, but for the variables of the concurrent callers.
NewRollerCall ==
    /\ ~roller
    /\ hist = <<>>
    /\ IF InvalidMaxSize
          THEN Return("NewRoller", Found, Cur, 0, ErrMaxSize)
               /\ roller' = FALSE
       ELSE IF filename = ""
          THEN Return("NewRoller", Found, Cur, 0, ErrFilename)
               /\ roller' = FALSE
       ELSE \E t \in currentTime(now), f \in SUBSET faults :
              LET s == openExistingOrNew(CurWith(f), 0, t)
              IN  /\ Return("NewRoller", Found, s, 0, s.err)
                  /\ roller' = (s.err = ErrNone)
    /\ UNCHANGED <<config, logVars, millLog, millRm, millCp>>

NewRoller == NewRollerCall /\ UNCHANGED lockVars

\* The counts r.file.Write(p) may return for a p of n bytes: n, or fewer
\* with an error if writes may fail.
Written(n) == IF "write" \in faults THEN 0..n ELSE {n}

\* Mutant: Write fills the file before it rotates and writes the rest of
\* p to the new file.
WriteSplits(n) ==
    /\ roller
    /\ Len(hist) < MaxCalls
    /\ IF WriteTooLong(n)
          THEN Return("Write", n, Cur, 0, ErrWriteTooLong)
       ELSE \E t \in currentTime(now), k \in Written(n), f \in Failing :
            LET room == IF OverMaxSize(size, n) /\ file = "open"
                          THEN maxSize - size ELSE 0
                first == [w |-> Len(hist) + 1, n |-> room]
                filled == [CurWith(f) EXCEPT
                             !.dir = Put(@, Primary,
                                         WriteChunk(@[Primary], first))]
                s == IF OverMaxSize(size, n)
                       THEN rotate(IF room > 0 THEN filled ELSE CurWith(f), t)
                     ELSE Cur
                chunk == [w |-> Len(hist) + 1, n |-> k - room]
            IN  IF s.err /= ErrNone
                  THEN k = n /\ Return("Write", n, s, 0, s.err)
                ELSE IF s.file = "nil"
                  THEN k = n /\ Return("Write", n, s, 0, ErrInvalid)
                ELSE k >= room /\
                     Return("Write", n,
                       [s EXCEPT !.dir = Put(@, Primary,
                                             WriteChunk(@[Primary], chunk)),
                                 !.size = @ + k - room],
                       k, IF k < n THEN ErrNoSpace ELSE ErrNone)
    /\ UNCHANGED <<config, logVars, millLog,
                   roller, millRm, millCp, lockVars>>

Write(n) ==
    /\ roller
    /\ Len(hist) < MaxCalls
    /\ IF WriteTooLong(n)
          THEN Return("Write", n, Cur, 0, ErrWriteTooLong)
       ELSE \E t \in currentTime(now), k \in Written(n), f \in Failing :
            \E s \in {IF OverMaxSize(size, n) THEN rotate(CurWith(f), t)
                      ELSE Cur} :
            LET chunk == [w |-> Len(hist) + 1, n |-> k]
            IN  IF s.err /= ErrNone
                  THEN k = n /\ Return("Write", n, s, 0, s.err)
                ELSE IF s.file = "nil"
                  THEN k = n /\ Return("Write", n, s, 0, ErrInvalid)
                ELSE Return("Write", n,
                       [s EXCEPT !.dir = Put(@, Primary,
                                             WriteChunk(@[Primary], chunk)),
                                 !.size = @ + k],
                       k, IF k < n THEN ErrNoSpace ELSE ErrNone)
    /\ UNCHANGED <<config, logVars, millLog,
                   roller, millRm, millCp, lockVars>>

Close ==
    /\ roller
    /\ Len(hist) < MaxCalls
    /\ \E f \in Failing :
          \E s \in {close(CurWith(f))} : Return("Close", 0, s, 0, s.err)
    /\ UNCHANGED <<config, logVars, millLog,
                   roller, millRm, millCp, lockVars>>

Rotate ==
    /\ roller
    /\ Len(hist) < MaxCalls
    /\ \E t \in currentTime(now), f \in Failing :
          \E s \in {rotate(CurWith(f), t)} :
              Return("Rotate", 0, s, 0, s.err)
    /\ UNCHANGED <<config, logVars, millLog,
                   roller, millRm, millCp, lockVars>>

\* The outcomes of a system call: it may fail if its kind is among the
\* faults.
Ok(kind) == IF kind \in faults THEN BOOLEAN ELSE {TRUE}

\* `if err == nil && e != nil { err = e }`
FirstErr(err, e) == IF err = ErrNone THEN e ELSE err

\* millRun: `for range r.millCh` receives a signal.
MillRecv ==
    /\ millPc = "idle"
    /\ millCh > 0
    /\ millCh' = millCh - 1
    /\ millPc' = "scan"
    /\ passes' = passes + 1
    /\ millErr' = ErrNone
    /\ UNCHANGED <<config, logVars, readDirs, millSrc, errCompress,
                   size, file, fds, startMill, millRuns, roller, dir, perm,
                   now, millRm, millCp, hist, lockVars>>

MillPcAfter(rm, cp) == IF rm = <<>> /\ cp = <<>> THEN "idle" ELSE "run"

\* Mutant: millRunOnce always scans the directory.
NothingToDoNever == FALSE

\* The first test of millRunOnce: no retention limit and no compression.
NothingToDo == maxBackups = 0 /\ maxAge = 0 /\ ~compress

\* millRunOnce up to the end of the construction of `remove` and `compress`.
MillScan ==
    /\ millPc = "scan"
    /\ IF NothingToDo
          THEN millRm' = <<>> /\ millCp' = <<>> /\ now' = now
               /\ readDirs' = readDirs
          ELSE \E files \in oldLogFiles(dir),
                  t \in IF maxAge > 0 THEN currentTime(now) ELSE {now} :
                  /\ millRm' = RemoveList(files, t)
                  /\ millCp' = CompressList(files, t)
                  /\ now' = t
                  /\ readDirs' = readDirs + 1
    /\ millPc' = MillPcAfter(millRm', millCp')
    /\ UNCHANGED <<config, logVars, passes, millSrc, millErr, errCompress,
                   size, file, fds, millCh, startMill, millRuns, roller,
                   dir, perm, hist, lockVars>>

\* Mutant: the pass ends at the first removal that fails.
MillRemoveStops ==
    /\ millPc = "run"
    /\ millRm /= <<>>
    /\ \E ok \in Ok("remove") :
          IF ok /\ Exists(dir, Head(millRm))
            THEN /\ dir' = Remove(dir, Head(millRm))
                 /\ millErr' = millErr
                 /\ millRm' = Tail(millRm)
                 /\ millCp' = millCp
            ELSE /\ dir' = dir
                 /\ millErr' = FirstErr(millErr, ErrRemove)
                 /\ millRm' = <<>>
                 /\ millCp' = <<>>
    /\ perm' = [x \in DOMAIN dir' |-> perm[x]]
    /\ millPc' = MillPcAfter(millRm', millCp')
    /\ UNCHANGED <<config, logVars, readDirs, passes, millSrc, errCompress,
                   size, file, fds, millCh, startMill, millRuns, roller,
                   now, hist, lockVars>>

\* millRunOnce: one iteration of the loop over `remove`.
MillRemove ==
    /\ millPc = "run"
    /\ millRm /= <<>>
    /\ \E ok \in Ok("remove") :
          IF ok /\ Exists(dir, Head(millRm))
            THEN dir' = Remove(dir, Head(millRm)) /\ millErr' = millErr
            ELSE dir' = dir /\ millErr' = FirstErr(millErr, ErrRemove)
    /\ perm' = [x \in DOMAIN dir' |-> perm[x]]
    /\ millRm' = Tail(millRm)
    /\ millPc' = MillPcAfter(millRm', millCp)
    /\ UNCHANGED <<config, logVars, readDirs, passes, millSrc, errCompress,
                   size, file, fds, millCh, startMill, millRuns, roller,
                   now, millCp, hist, lockVars>>

\* millRunOnce: one iteration of the loop over `compress`.
MillCompress ==
    /\ millPc = "run"
    /\ millRm = <<>>
    /\ millCp /= <<>>
    /\ dir' = compressLogFile(dir, Head(millCp))
    /\ perm' = [x \in DOMAIN dir' |->
                  IF Exists(dir, x) THEN perm[x] ELSE Create(perm[Head(millCp)])]
    /\ millCp' = Tail(millCp)
    /\ millPc' = MillPcAfter(millRm, millCp')
    /\ UNCHANGED <<config, logVars, millLog,
                   size, file, fds, millCh, startMill, millRuns, roller,
                   now, millRm, hist, lockVars>>

millRun == MillRecv \/ MillScan \/ MillRemove \/ MillCompress

Next ==
    \/ NewRoller
    \/ \E n \in 1..MaxSizeBound + 1 : Write(n)
    \/ Close
    \/ Rotate
    \/ millRun

Spec == Init /\ [][Next]_vars

\* A Roller that retains by count, over a directory that holds the old
\* backup Bak(0) and perhaps a newer one, in one form or both.  The
\* millRun goroutine is scheduled like any goroutine that can run: it is
\* never left waiting for ever.
CountPolicies ==
    [maxBackups : 1..MaxBackupsBound, maxAge : {0}, compress : BOOLEAN,
     localTime : {FALSE}]

InitRetention ==
    InitWith({"foo.log"}, {MaxSizeBound}, CountPolicies,
             {d \in InitDirs({Bak(0), Bak(1), Gz(1)}, {1}) : Exists(d, Bak(0))})

FairSpec == InitRetention /\ [][Next]_vars /\ WF_vars(millRun)

\* ------------------------------------------ concurrent callers and r.mu
\* The calls of Write, Rotate and Close, made by concurrent callers and
\* taken statement by statement: each caller locks r.mu, runs the locked
\* section and unlocks on return.  The millRun goroutine takes no lock
\* and touches backups only; it is left out of this specification.

\* Mutant: r.mu.Lock() returns while another caller holds the mutex.
MutexAlwaysFree == TRUE

MutexFree == mu = 0

\* The number of calls made so far, NewRoller included.
Issued == Len(hist) + Cardinality({c \in Callers : call[c].pc /= "idle"})

\* The fields of the Roller, its goroutine, the directory and the clock
\* take the values of record s.
Store(s) ==
    /\ size' = s.size
    /\ file' = s.file
    /\ fds' = s.fds
    /\ millCh' = s.millCh
    /\ startMill' = s.startMill
    /\ millRuns' = s.millRuns
    /\ millPc' = s.millPc
    /\ dir' = s.dir
    /\ perm' = s.perm
    /\ now' = s.now

\* What call c, run as a whole, makes of the record s: the locked
\* sections of Write, Rotate and Close.
SeqCall(s, c) ==
    IF c.op = "Write"
      THEN LET r == IF OverMaxSize(s.size, c.n) THEN rotate(s, c.t) ELSE s
           IN  IF r.file = "nil" THEN r
               ELSE [r EXCEPT !.dir = Put(@, Primary,
                                          WriteChunk(@[Primary],
                                                     [w |-> c.id, n |-> c.n])),
                              !.size = @ + c.n]
    ELSE IF c.op = "Rotate" THEN rotate(s, c.t)
    ELSE close(s)

\* NewRoller returns before any caller has the Roller.
Construct ==
    /\ NewRollerCall
    /\ seq' = Cur'
    /\ UNCHANGED <<mu, call, order>>

\* Write up to r.mu.Lock(): the length check is made without the lock.
WriteCall(c, n) ==
    /\ roller
    /\ call[c].pc = "idle"
    /\ Issued < MaxCalls
    /\ IF WriteTooLong(n)
          THEN /\ hist' = Append(hist, Entry("Write", n, Cur, 0, ErrWriteTooLong))
               /\ UNCHANGED call
          ELSE /\ call' = [call EXCEPT ![c] = [IdleCall EXCEPT !.pc = "lock",
                                                               !.op = "Write",
                                                               !.n = n,
                                                               !.id = Issued + 1]]
               /\ UNCHANGED hist
    /\ UNCHANGED <<config, logVars, millLog,
                   size, file, fds, millCh, startMill, millRuns, roller, dir,
                   perm, now, millPc, millRm, millCp, mu, order, seq>>

\* Rotate and Close up to r.mu.Lock().
LockedCall(c, op) ==
    /\ roller
    /\ call[c].pc = "idle"
    /\ Issued < MaxCalls
    /\ call' = [call EXCEPT ![c] = [IdleCall EXCEPT !.pc = "lock", !.op = op,
                                                    !.id = Issued + 1]]
    /\ UNCHANGED <<config, logVars, millLog,
                   size, file, fds, millCh, startMill, millRuns, roller, dir,
                   perm, now, millPc, millRm, millCp, hist, mu, order, seq>>

RotateCall(c) == LockedCall(c, "Rotate")

CloseCall(c) == LockedCall(c, "Close")

\* r.mu.Lock() returns.
Lock(c) ==
    /\ call[c].pc = "lock"
    /\ MutexFree
    /\ mu' = c
    /\ order' = Append(order, call[c].id)
    /\ call' = [call EXCEPT ![c].pc = "body"]
    /\ UNCHANGED <<config, logVars, millLog,
                   size, file, fds, millCh, startMill, millRuns, roller, dir,
                   perm, now, millPc, millRm, millCp, hist, seq>>

\* Write: the test of the recorded size and the rotation.
WriteRotate(c) ==
    /\ call[c].pc = "body"
    /\ call[c].op = "Write"
    /\ \E t \in currentTime(now) :
          LET s == IF OverMaxSize(size, call[c].n) THEN rotate(Cur, t) ELSE Cur
          IN  /\ Store(s)
              /\ call' = [call EXCEPT ![c].pc = "write", ![c].rot = s.rot,
                                      ![c].t = s.now]
    /\ UNCHANGED <<config, logVars, millLog,
                   roller, millRm, millCp, hist, mu, order, seq>>

\* Write: r.file.Write(p).
WriteFile(c) ==
    /\ call[c].pc = "write"
    /\ IF file = "nil"
          THEN /\ dir' = dir
               /\ call' = [call EXCEPT ![c].pc = "size", ![c].rn = 0,
                                       ![c].err = ErrInvalid]
          ELSE /\ dir' = Put(dir, Primary,
                             WriteChunk(dir[Primary],
                                        [w |-> call[c].id, n |-> call[c].n]))
               /\ call' = [call EXCEPT ![c].pc = "size", ![c].rn = call[c].n]
    /\ UNCHANGED <<config, logVars, millLog,
                   size, file, fds, millCh, startMill, millRuns, roller,
                   perm, now, millPc, millRm, millCp, hist, mu, order, seq>>

\* Write: r.size += int64(n).
WriteSize(c) ==
    /\ call[c].pc = "size"
    /\ size' = size + call[c].rn
    /\ call' = [call EXCEPT ![c].pc = "unlock"]
    /\ UNCHANGED <<config, logVars, millLog,
                   file, fds, millCh, startMill, millRuns, roller, dir,
                   perm, now, millPc, millRm, millCp, hist, mu, order, seq>>

\* Rotate: r.rotate().
RotateBody(c) ==
    /\ call[c].pc = "body"
    /\ call[c].op = "Rotate"
    /\ \E t \in currentTime(now) :
          LET s == rotate(Cur, t)
          IN  /\ Store(s)
              /\ call' = [call EXCEPT ![c].pc = "unlock", ![c].rot = s.rot,
                                      ![c].t = s.now]
    /\ UNCHANGED <<config, logVars, millLog,
                   roller, millRm, millCp, hist, mu, order, seq>>

\* Close: r.close().
CloseBody(c) ==
    /\ call[c].pc = "body"
    /\ call[c].op = "Close"
    /\ Store(close(Cur))
    /\ call' = [call EXCEPT ![c].pc = "unlock"]
    /\ UNCHANGED <<config, logVars, millLog,
                   roller, millRm, millCp, hist, mu, order, seq>>

\* The deferred r.mu.Unlock() and the return of the call.
Unlock(c) ==
    /\ call[c].pc = "unlock"
    /\ mu' = 0
    /\ hist' = Append(hist, [op |-> call[c].op, n |-> call[c].n,
                             rot |-> call[c].rot, sz |-> size,
                             rn |-> call[c].rn, err |-> call[c].err])
    /\ seq' = SeqCall(seq, call[c])
    /\ call' = [call EXCEPT ![c] = IdleCall]
    /\ UNCHANGED <<config, logVars, millLog,
                   size, file, fds, millCh, startMill, millRuns, roller, dir,
                   perm, now, millPc, millRm, millCp, order>>

LockNext ==
    \/ Construct
    \/ \E c \in Callers :
          \/ \E n \in 1..MaxSizeBound + 1 : WriteCall(c, n)
          \/ RotateCall(c)
          \/ CloseCall(c)
          \/ Lock(c)
          \/ WriteRotate(c)
          \/ WriteFile(c)
          \/ WriteSize(c)
          \/ RotateBody(c)
          \/ CloseBody(c)
          \/ Unlock(c)

NoRetention ==
    {[maxBackups |-> 0, maxAge |-> 0, compress |-> FALSE, localTime |-> FALSE]}

InitLock ==
    InitWith({"foo.log"}, {MaxSizeBound}, NoRetention, InitDirs({}, {1}))

LockSpec == InitLock /\ [][LockNext]_vars

\* A Roller with any mix of the three retention options, over a directory
\* that holds some old backups, its millRun goroutine scheduled fairly.
MillPolicies ==
    [maxBackups : 0..MaxBackupsBound, maxAge : {0, MaxAgeBound},
     compress : BOOLEAN, localTime : {FALSE}]

InitMill ==
    InitWith({"foo.log"}, {MaxSizeBound}, MillPolicies,
             InitDirs({Bak(0), Bak(1)}, {1}))

MillSpec == InitMill /\ [][Next]_vars /\ WF_vars(millRun)

\* The same Roller over a directory that also holds what is no backup of
\* this log: files with other names, and a directory whose name is the
\* name of a compressed backup.
Clutter == {NoPrefix, NoExt, NoStamp, Gz(0)}

Cluttered(d) ==
    [x \in DOMAIN d \cup Clutter |->
        IF x = Gz(0) THEN Directory
        ELSE IF x \in Clutter THEN Raw(<<[w |-> -1, n |-> 1]>>)
        ELSE d[x]]

InitFrame ==
    InitWith({"foo.log"}, {MaxSizeBound}, MillPolicies,
             {Cluttered(d) : d \in InitDirs({Bak(0), Bak(1)}, {1})})

FrameSpec == InitFrame /\ [][Next]_vars

\* A Roller that retains one backup and compresses, over a primary file
\* of mode 0600 or 0666, in a process whose umask is 0 or masks the bits
\* of 0066.
ModePolicies ==
    {[maxBackups |-> 1, maxAge |-> 0, compress |-> TRUE, localTime |-> FALSE]}

Modes == {{"u"}, {"u", "g"}}

Umasks == {{}, {"g"}}

InitMode ==
    /\ InitEnv({"foo.log"}, {MaxSizeBound}, ModePolicies,
               InitDirs({Bak(0)}, {1, MaxSizeBound}))
    /\ \E m \in Modes :
          perm = [x \in DOMAIN dir |-> IF x = Primary THEN m ELSE DefaultMode]
    /\ umask \in Umasks
    /\ faults = {}
    /\ logger = NoLogger
    /\ deleting = <<>>

ModeSpec == InitMode /\ [][Next]_vars

\* ------------------------------------- compressLogFile, call by call
\* compressLogFile taken one system call at a time, each of which may
\* fail if its kind is among the faults.  The handle f reads the file it
\* was opened on, also after another file has been renamed onto the name.
CompressSrc == Head(millCp)

CompressDst == Gz(CompressSrc.t)

InCompress(pc) == millPc = pc /\ millRm = <<>> /\ millCp /= <<>>

\* What no call of compressLogFile changes.
compressFrame ==
    <<config, logVars, readDirs, passes, size, file, fds, millCh, startMill,
      millRuns, roller, now, millRm, hist, lockVars>>

\* compressLogFile returns.
CompressReturn(e) ==
    /\ millCp' = Tail(millCp)
    /\ millPc' = IF Tail(millCp) = <<>> THEN "done" ELSE "run"
    /\ millSrc' = NoFile
    /\ errCompress' = e
    /\ millErr' = IF e = ErrNone THEN millErr ELSE FirstErr(millErr, e)

\* Mutant: the failure is not reported.
CompressFailSilent ==
    /\ \E ok \in Ok("remove") :
          dir' = IF ok /\ Exists(dir, CompressDst)
                   THEN Remove(dir, CompressDst)
                 ELSE dir
    /\ perm' = [x \in DOMAIN dir' |-> perm[x]]
    /\ CompressReturn(ErrNone)

\* It returns an error after the destination was opened: the deferred
\* function calls os.Remove(dst), whose result it drops, and wraps the
\* error.
CompressFail ==
    /\ \E ok \in Ok("remove") :
          dir' = IF ok /\ Exists(dir, CompressDst)
                   THEN Remove(dir, CompressDst)
                 ELSE dir
    /\ perm' = [x \in DOMAIN dir' |-> perm[x]]
    /\ CompressReturn(ErrCompress)

\* The call goes on to the next.
CompressGoes(pc) == millPc' = pc /\ UNCHANGED <<millCp, millSrc, millErr, errCompress>>

\* os.Open(src) and osStat(src).
CompressOpen ==
    /\ InCompress("run")
    /\ \E opened \in Ok("open"), stated \in Ok("stat") :
          IF opened /\ stated /\ Exists(dir, CompressSrc)
            THEN /\ millSrc' = [data |-> dir[CompressSrc].data,
                                enc |-> dir[CompressSrc].enc,
                                mode |-> perm[CompressSrc]]
                 /\ millPc' = "create"
                 /\ UNCHANGED <<millCp, millErr, errCompress>>
            ELSE CompressReturn(IF opened /\ Exists(dir, CompressSrc)
                                  THEN ErrStatLog
                                ELSE ErrOpenLog)
    /\ UNCHANGED <<compressFrame, dir, perm>>

\* What a file that held `old` holds after `new` was written from its
\* start: `new`, and what of `old` lies beyond it.
Overwritten(old, new) == new \o SubSeq(old, Len(new) + 1, Len(old))

\* Mutant: the destination is opened without O_TRUNC.
CompressCreateNoTrunc ==
    /\ InCompress("create")
    /\ \E ok \in Ok("create") :
          IF ok /\ ~(Exists(dir, CompressDst) /\ IsDir(dir[CompressDst]))
            THEN /\ dir' = Put(dir, CompressDst,
                               IF Exists(dir, CompressDst)
                                 THEN Part(dir[CompressDst].data)
                               ELSE Part(<<>>))
                 /\ perm' = [x \in DOMAIN dir' |->
                               IF Exists(dir, x) THEN perm[x]
                               ELSE Create(millSrc.mode)]
                 /\ CompressGoes("copy")
            ELSE UNCHANGED <<dir, perm>> /\ CompressReturn(ErrOpenGz)
    /\ UNCHANGED compressFrame

\* os.OpenFile(dst, O_CREATE|O_TRUNC|O_WRONLY, fi.Mode()): an error is
\* returned before the deferred function is set up.
CompressCreate ==
    /\ InCompress("create")
    /\ \E ok \in Ok("create") :
          IF ok /\ ~(Exists(dir, CompressDst) /\ IsDir(dir[CompressDst]))
            THEN /\ dir' = Put(dir, CompressDst, Part(<<>>))
                 /\ perm' = [x \in DOMAIN dir' |->
                               IF Exists(dir, x) THEN perm[x]
                               ELSE Create(millSrc.mode)]
                 /\ CompressGoes("copy")
            ELSE UNCHANGED <<dir, perm>> /\ CompressReturn(ErrOpenGz)
    /\ UNCHANGED compressFrame

\* io.Copy(gz, f).
CompressCopy ==
    /\ InCompress("copy")
    /\ \E ok \in Ok("copy") :
          IF ok
            THEN /\ dir' = IF Exists(dir, CompressDst)
                             THEN Put(dir, CompressDst,
                                      Part(Overwritten(dir[CompressDst].data,
                                                       millSrc.data)))
                           ELSE dir
                 /\ perm' = perm
                 /\ CompressGoes("flush")
            ELSE CompressFail
    /\ UNCHANGED compressFrame

\* gz.Close(), which writes what the compressor still holds.
CompressFlush ==
    /\ InCompress("flush")
    /\ \E ok \in Ok("flush") :
          IF ok THEN UNCHANGED <<dir, perm>> /\ CompressGoes("gzclose")
          ELSE CompressFail
    /\ UNCHANGED compressFrame

\* gzf.Close(): the destination is written to its end and closed.
CompressCloseDst ==
    /\ InCompress("gzclose")
    /\ \E ok \in Ok("close") :
          IF ok
            THEN /\ dir' = IF Exists(dir, CompressDst)
                             THEN Put(dir, CompressDst, Gzip(dir[CompressDst]))
                           ELSE dir
                 /\ perm' = perm
                 /\ CompressGoes("fclose")
            ELSE CompressFail
    /\ UNCHANGED compressFrame

\* f.Close().
CompressCloseSrc ==
    /\ InCompress("fclose")
    /\ \E ok \in Ok("close") :
          IF ok
            THEN /\ millSrc' = NoFile
                 /\ millPc' = "remove"
                 /\ UNCHANGED <<dir, perm, millCp, millErr, errCompress>>
            ELSE CompressFail
    /\ UNCHANGED compressFrame

\* os.Remove(src).
CompressRemove ==
    /\ InCompress("remove")
    /\ \E ok \in Ok("remove") :
          IF ok /\ Exists(dir, CompressSrc)
            THEN /\ dir' = Remove(dir, CompressSrc)
                 /\ perm' = [x \in DOMAIN dir' |-> perm[x]]
                 /\ CompressReturn(ErrNone)
            ELSE CompressFail
    /\ UNCHANGED compressFrame

\* millRunOnce returns err after the last call of compressLogFile and
\* millRun drops it: `_ = r.millRunOnce()`.
MillReturn ==
    /\ millPc = "done"
    /\ millPc' = "idle"
    /\ millErr' = ErrNone
    /\ errCompress' = ErrNone
    /\ UNCHANGED <<compressFrame, dir, perm, millCp, millSrc>>

compressLogFileCalls ==
    \/ CompressOpen
    \/ CompressCreate
    \/ CompressCopy
    \/ CompressFlush
    \/ CompressCloseDst
    \/ CompressCloseSrc
    \/ CompressRemove

CompressNext ==
    \/ NewRoller
    \/ \E n \in {MaxSizeBound} : Write(n)
    \/ Close
    \/ Rotate
    \/ MillRecv
    \/ MillScan
    \/ MillRemove
    \/ compressLogFileCalls
    \/ MillReturn

\* A Roller that compresses and keeps two backups, over a directory with
\* an old backup; every call of compressLogFile and every removal may
\* fail.  Each Write fills a file.
CompressPolicies ==
    [maxBackups : {MaxBackupsBound}, maxAge : {0}, compress : {TRUE},
     localTime : {FALSE}]

CompressFaults == {"open", "stat", "create", "copy", "flush", "close", "remove"}

InitCompress ==
    /\ InitEnv({"foo.log"}, {MaxSizeBound}, CompressPolicies,
               InitDirs({Bak(0)}, {1}))
    /\ perm = [x \in DOMAIN dir |-> DefaultMode]
    /\ umask = {}
    /\ faults = CompressFaults
    /\ logger = NoLogger
    /\ deleting = <<>>

CompressSpec == InitCompress /\ [][CompressNext]_vars

\* ------------------------------------------- rotations that may fail
\* The calls of the API and the passes of a Roller without retention.
RotateFaultNext ==
    \/ NewRoller
    \/ \E n \in 1..MaxSizeBound + 1 : Write(n)
    \/ Close
    \/ Rotate
    \/ MillRecv
    \/ MillScan

\* A Roller without retention over a primary file that is absent, empty,
\* partly filled or full; every system call of a rotation may fail.
InitRotateFault ==
    /\ InitEnv({"foo.log"}, {MaxSizeBound}, NoRetention,
               InitDirs({Bak(0)}, 0..MaxSizeBound))
    /\ perm = [x \in DOMAIN dir |-> DefaultMode]
    /\ umask = {}
    /\ faults = RotateFaults
    /\ logger = NoLogger
    /\ deleting = <<>>

RotateFaultSpec == InitRotateFault /\ [][RotateFaultNext]_vars

\* A Roller without retention and compression over a directory with an
\* old backup and a primary file that is absent, empty or partly filled;
\* no call fails.
InitPlain ==
    InitWith({"foo.log"}, {MaxSizeBound}, NoRetention,
             InitDirs({Bak(0)}, 0..MaxSizeBound - 1))

PlainSpec == InitPlain /\ [][RotateFaultNext]_vars

\* What an interrupted compression of the old backup Bak(0) may have left
\* under the destination's name: nothing written, the start of the
\* compressed source, or bytes that go beyond it.
Leftovers ==
    {Part(<<>>), Part(OldBackup(Bak(0)).data),
     Part(OldBackup(Bak(0)).data \o <<[w |-> -9, n |-> 1]>>)}

\* The directories with the old backup Bak(0), with no destination or a
\* leftover one, and no primary file or one of a size of `sizes`.
ResumeDirs(sizes) ==
    {[x \in DOMAIN d \cup {Gz(0)} |-> IF x = Gz(0) THEN l ELSE d[x]] :
        d \in {e \in InitDirs({Bak(0)}, sizes) : Exists(e, Bak(0))},
        l \in Leftovers}
    \cup {e \in InitDirs({Bak(0)}, sizes) : Exists(e, Bak(0))}

\* A Roller that compresses, over such a directory; no call fails.
InitResume ==
    /\ InitEnv({"foo.log"}, {MaxSizeBound}, CompressPolicies,
               ResumeDirs({1}))
    /\ perm = [x \in DOMAIN dir |-> DefaultMode]
    /\ umask = {}
    /\ faults = {}
    /\ logger = NoLogger
    /\ deleting = <<>>

ResumeSpec == InitResume /\ [][CompressNext]_vars

\* A Roller keeping one backup, compressed, whose writes may be short and
\* whose opening of an existing primary file may fail, over a primary
\* file that is absent, empty, partly filled or full.
FaultPolicies ==
    {[maxBackups |-> 1, maxAge |-> 0, compress |-> TRUE, localTime |-> FALSE]}

InitFault ==
    /\ InitEnv({"foo.log"}, {MaxSizeBound + 1}, FaultPolicies,
               InitDirs({Bak(0)}, 0..MaxSizeBound + 1))
    /\ perm = [x \in DOMAIN dir |-> DefaultMode]
    /\ umask = {}
    /\ faults = {"write", "append"}
    /\ logger = NoLogger
    /\ deleting = <<>>

FaultSpec == InitFault /\ [][Next]_vars

\* ------------------------------------------- the v1 Logger (part_003)
\* The first version of the package: a Logger that writes to files named
\* by NameFormat in the directory Dir, opens the newest of them or a new
\* one on the first Write, and has each cleanup remove files in a
\* goroutine of its own.  It shares the directory, the clock and the
\* record of the calls with the Roller, which is left unbuilt while the
\* Logger runs.  The directory holds log files only; a file carries its
\* last modification time, which is the clock reading of the write.
ErrPanic == "runtime error: slice bounds out of range"

defaultMaxSize == 100 * 1024 * 1024

\* t.Format(l.format()) for the instant t.
LogName(t) == [k |-> "v1", t |-> t]

isLogFile(name) == name.k = "v1"

LogFile(data, t) == [data |-> data, enc |-> "raw", mtime |-> t]

\* The file after n bytes of call id are written at position pos at time t.
WriteAt(f, pos, id, n, t) ==
    LET len == IF pos + n > Len(f.data) THEN pos + n ELSE Len(f.data)
    IN  [f EXCEPT !.data = [i \in 1..len |->
                              IF i > pos /\ i <= pos + n
                                THEN [w |-> id, n |-> 1]
                                ELSE f.data[i]],
                  !.mtime = IF n > 0 THEN t ELSE @]

\* The Logger, the local variable f of Write, the directory, the clock
\* and the goroutines, and what the call returns.
LCur ==
    [l |-> logger, f |-> logger.file, dir |-> dir, now |-> now,
     del |-> deleting, rn |-> 0, err |-> ErrNone]

max(l) == IF l.MaxSize = 0 THEN defaultMaxSize ELSE l.MaxSize

genFilename(l, t) == LogName(Format(t, l.LocalTime))

\* An open file: the name it was opened on, its offset, and whether it
\* was opened with O_APPEND.
Handle(name, app) == [open |-> TRUE, name |-> name, off |-> 0, app |-> app]

\* Logger.openNew: O_CREATE without O_TRUNC opens a file that is there as
\* it is.
LoggerOpenNew(s, t) ==
    LET name == genFilename(s.l, t)
        d == IF Exists(s.dir, name) THEN s.dir
             ELSE Put(s.dir, name, LogFile(<<>>, t))
    IN  [s EXCEPT !.dir = d,
                  !.now = t,
                  !.l.size = FileSize(d[name]),
                  !.f = Handle(name, FALSE)]

\* The log files of the directory other than those of `except`, newest
\* name first.
LogFiles(d, except) ==
    Sorted({x \in DOMAIN d : ~IsDir(d[x]) /\ isLogFile(x) /\ x \notin except})

\* Logger.openExistingOrNew: the newest log file is opened for appending
\* if the write leaves it below the maximum; l.size is left as it is.
LoggerOpenExistingOrNew(s, writeLen, t) ==
    LET files == CHOOSE q \in LogFiles(s.dir, {}) : TRUE
    IN  IF files /= <<>> /\ FileSize(s.dir[files[1]]) + writeLen < max(s.l)
          THEN [s EXCEPT !.f = Handle(files[1], TRUE)]
        ELSE LoggerOpenNew(s, t)

\* files[l.MaxBackups:] is out of range.
TooFewFiles(l, files) == l.MaxBackups > Len(files)

\* Logger.cleanup, t being the reading the cutoff is computed from.
LoggerCleanup(s, t) ==
    IF s.l.MaxBackups = 0 /\ s.l.MaxAge = 0 THEN s
    ELSE LET files == CHOOSE q \in LogFiles(s.dir, {s.l.file.name}) : TRUE
             cut == s.l.MaxBackups > 0
         IN  IF cut /\ TooFewFiles(s.l, files)
               THEN [s EXCEPT !.rn = 0, !.err = ErrPanic]
             ELSE LET over == IF cut THEN SubSeq(files, s.l.MaxBackups + 1,
                                                 Len(files))
                              ELSE <<>>
                      kept == IF cut THEN SubSeq(files, 1, s.l.MaxBackups)
                              ELSE files
                      old == IF s.l.MaxAge > 0
                               THEN SelectSeq(kept, LAMBDA x :
                                      s.dir[x].mtime < t - s.l.MaxAge)
                             ELSE <<>>
                      deletes == over \o old
                  IN  [s EXCEPT !.now = IF s.l.MaxAge > 0 THEN t ELSE @,
                                !.del = IF deletes = <<>> THEN @
                                        ELSE Append(@, deletes)]

\* f.Write(p): at the end of the file for a handle opened with O_APPEND,
\* at the offset of the handle otherwise; into the unlinked file, which
\* no name shows, if the file has been removed.
LoggerFileWrite(s, id, n) ==
    LET name == s.f.name
        there == Exists(s.dir, name)
        pos == IF s.f.app /\ there THEN FileSize(s.dir[name]) ELSE s.f.off
    IN  [s EXCEPT !.dir = IF there
                            THEN Put(@, name, WriteAt(@[name], pos, id, n, s.now))
                            ELSE @,
                  !.f.off = pos + n,
                  !.l.size = @ + n,
                  !.rn = n]

\* The test `rotate` of Logger.Write.
LoggerRotates(l, n) == l.size + n > max(l)

\* Logger.Write from the choice of the file on; t1 is the reading of
\* currentTime() in genFilename, t2 the one in cleanup.
LoggerWriteBody(s, id, n, t1, t2) ==
    LET opened == IF s.l.file = NilFile THEN LoggerOpenExistingOrNew(s, n, t1)
                  ELSE IF LoggerRotates(s.l, n) THEN LoggerOpenNew(s, t1)
                  ELSE s
        written == LoggerFileWrite(opened, id, n)
        assigned == [written EXCEPT !.l.file = written.f]
    IN  IF LoggerRotates(s.l, n) THEN LoggerCleanup(assigned, t2)
        ELSE assigned

\* What is left of the Roller, which is not built.
rollerVars ==
    <<config, size, file, fds, millCh, startMill, millRuns, roller, perm,
      millPc, millRm, millCp, millLog, lockVars>>

LoggerReturn(op, n, rot, s) ==
    /\ logger' = s.l
    /\ dir' = s.dir
    /\ now' = s.now
    /\ deleting' = s.del
    /\ hist' = Append(hist, [op |-> op, n |-> n, rot |-> rot, sz |-> s.l.size,
                             rn |-> s.rn, err |-> s.err])
    /\ UNCHANGED rollerVars

LoggerWrite(n) ==
    /\ Len(hist) < MaxCalls
    /\ IF n > max(logger)
          THEN LoggerReturn("Write", n, 0, [LCur EXCEPT !.err = ErrWriteTooLong])
          ELSE \E t1 \in currentTime(now) : \E t2 \in currentTime(t1) :
                  LoggerReturn("Write", n, IF LoggerRotates(logger, n) THEN 1 ELSE 0,
                               LoggerWriteBody(LCur, Len(hist) + 1, n, t1, t2))

LoggerClose ==
    /\ Len(hist) < MaxCalls
    /\ LoggerReturn("Close", 0, 0, [LCur EXCEPT !.l.file = NilFile])

\* One iteration of the loop of the i-th deleteAll goroutine.
deleteAll(i) ==
    /\ i \in 1..Len(deleting)
    /\ LET name == Head(deleting[i])
           rest == Tail(deleting[i])
       IN  /\ dir' = IF Exists(dir, name) THEN Remove(dir, name) ELSE dir
           /\ deleting' = IF rest = <<>>
                            THEN SubSeq(deleting, 1, i - 1)
                                 \o SubSeq(deleting, i + 1, Len(deleting))
                          ELSE [deleting EXCEPT ![i] = rest]
    /\ UNCHANGED <<rollerVars, logger, now, hist>>

LoggerNext ==
    \/ \E n \in 1..MaxSizeBound + 2 : LoggerWrite(n)
    \/ LoggerClose
    \/ \E i \in 1..MaxCalls : deleteAll(i)

\* The log files of an earlier run: each of 1 or 2 bytes, last modified
\* at the instant of its name.
LogDirs ==
    {[x \in B |-> LogFile([i \in 1..n[x] |-> [w |-> 0, n |-> 1]], x.t)] :
        B \in SUBSET {LogName(0), LogName(1)},
        n \in [{LogName(0), LogName(1)} -> {1, 2}]}

\* A Logger literal with a MaxSize of MaxSizeBound + 1 bytes and any
\* retention, in UTC, before its first Write.
InitLogger ==
    /\ InitEnv({""}, {0}, NoRetention, LogDirs)
    /\ perm = <<>>
    /\ umask = {}
    /\ faults = {}
    /\ \E mb \in 0..MaxBackupsBound, ma \in {0, MaxAgeBound} :
          logger = [NoLogger EXCEPT !.MaxSize = MaxSizeBound + 1,
                                    !.MaxBackups = mb,
                                    !.MaxAge = ma]
    /\ deleting = <<>>

LoggerSpec == InitLogger /\ [][LoggerNext]_vars

\* ------------------------------------------------------------ properties
Last == hist[Len(hist)]

\* The step is a call of op.
Step(op) == Len(hist') = Len(hist) + 1 /\ Last'.op = op

\* The bytes call number id writes for a p of length n.
Payload(id, n) == IF n = 0 THEN <<>> ELSE <<[w |-> id, n |-> n]>>

Backups(d) == {x \in DOMAIN d : IsBackupName(x)}

\* The step creates, removes and changes no file except those of S.
OnlyTouches(S) ==
    \A x \in (DOMAIN dir \cup DOMAIN dir') \ S :
        x \in DOMAIN dir /\ x \in DOMAIN dir' /\ dir'[x] = dir[x]

\* The step leaves the mill goroutine and its trigger as they are.
MillUnchanged ==
    UNCHANGED <<millCh, startMill, millRuns, millPc, millRm, millCp>>

\* C1: a Write of more than maxSize bytes returns 0 and ErrWriteTooLong and
\* changes nothing: not the handle, the recorded size, any file of the
\* directory or the maintenance trigger.
C1_WriteTooLong ==
    [][(Step("Write") /\ Last'.n > maxSize) =>
          /\ Last'.rn = 0
          /\ Last'.err = ErrWriteTooLong
          /\ Last'.rot = 0
          /\ UNCHANGED <<file, size, dir, now>>
          /\ MillUnchanged]_vars

\* An oversized Write was made on an open, partly filled file.
C1_Witness ==
    /\ hist /= <<>>
    /\ Last.op = "Write"
    /\ Last.n > maxSize
    /\ file = "open"
    /\ size > 0

\* C2: a Write of n <= maxSize bytes on an open file of recorded size S
\* rotates first iff S + n > maxSize.  If it rotates, the primary file then
\* holds exactly p, the recorded size is n, one backup holds what the
\* primary held and no other file is touched; if not, p is appended, the
\* recorded size is S + n and no other file is touched.
C2_WriteRotates ==
    [][(Step("Write") /\ file = "open" /\ Last'.n <= maxSize) =>
          LET n == Last'.n
              p == Payload(Len(hist'), n)
          IN  /\ Last'.rn = n
              /\ Last'.err = ErrNone
              /\ file' = "open"
              /\ IF size + n > maxSize
                   THEN /\ Last'.rot = 1
                        /\ dir'[Primary] = Raw(p)
                        /\ size' = n
                        /\ \E b \in Backups(dir') :
                              /\ b.k = "bak"
                              /\ dir'[b] = dir[Primary]
                              /\ FileSize(dir'[b]) = size
                              /\ OnlyTouches({Primary, b})
                   ELSE /\ Last'.rot = 0
                        /\ dir'[Primary] = Raw(dir[Primary].data \o p)
                        /\ size' = size + n
                        /\ OnlyTouches({Primary})]_vars

\* A Write has rotated a file it had to, and the one before it exactly
\* filled the file without rotating.
C2_Witness ==
    /\ Len(hist) >= 3
    /\ Last.op = "Write"
    /\ Last.rot = 1
    /\ Last.err = ErrNone
    /\ hist[Len(hist) - 1].op = "Write"
    /\ hist[Len(hist) - 1].rot = 0
    /\ hist[Len(hist) - 1].sz = maxSize

\* The Roller wrote every byte of f.
FilledByRoller(f) == \A i \in 1..Len(f.data) : f.data[i].w > 0

\* C3: once the Roller is built, the recorded size is between 0 and
\* maxSize, the primary file is no longer than maxSize, and so is every
\* backup of a file the Roller filled from empty.
C3_SizeBounded ==
    roller =>
        /\ 0 <= size
        /\ size <= maxSize
        /\ Exists(dir, Primary) => FileSize(dir[Primary]) <= maxSize
        /\ \A b \in Backups(dir) :
              FilledByRoller(dir[b]) => FileSize(dir[b]) <= maxSize

\* A full primary file next to a backup the Roller filled to maxSize.
C3_Witness ==
    /\ roller
    /\ size = maxSize
    /\ FileSize(dir[Primary]) = maxSize
    /\ \E b \in Backups(dir) :
          FilledByRoller(dir[b]) /\ FileSize(dir[b]) = maxSize

\* The reference fold of C4: the number of times the running total of
\* the lengths crosses maxSize, the total starting again at each crossing.
RECURSIVE RefRotations(_, _)
RefRotations(lens, cur) ==
    IF lens = <<>> THEN 0
    ELSE IF cur + Head(lens) > maxSize
      THEN 1 + RefRotations(Tail(lens), Head(lens))
    ELSE RefRotations(Tail(lens), cur + Head(lens))

\* The calls so far are a NewRoller that left an empty primary file and
\* then Writes of at most maxSize bytes only.
OnlyWrites ==
    /\ hist /= <<>>
    /\ hist[1].err = ErrNone
    /\ hist[1].sz = 0
    /\ \A i \in 2..Len(hist) : hist[i].op = "Write" /\ hist[i].n <= maxSize

RECURSIVE Rotations(_)
Rotations(h) == IF h = <<>> THEN 0 ELSE Head(h).rot + Rotations(Tail(h))

\* C4: after Writes w1..wn on a fresh empty primary file, the Writes have
\* rotated as often as the reference fold counts; as this holds after
\* each Write, each rotation is at a crossing of the fold.
C4_RotationCount ==
    OnlyWrites =>
        Rotations(Tail(hist)) =
            RefRotations([i \in 1..Len(hist) - 1 |-> hist[i + 1].n], 0)

\* Three Writes, two of them rotating.
C4_Witness == OnlyWrites /\ Rotations(Tail(hist)) = 2

\* C5: a primary file of S < maxSize bytes that exists when the Roller is
\* built is appended to by a first Write of W bytes with S + W <= maxSize:
\* it then holds its S bytes followed by the W bytes, the recorded size is
\* S + W, and neither NewRoller nor the Write made a backup.
C5_ResumeAppends ==
    [][(/\ Step("Write")
        /\ Len(hist) = 1
        /\ hist[1].err = ErrNone
        /\ 0 <= hist[1].n
        /\ hist[1].n < maxSize
        /\ hist[1].n + Last'.n <= maxSize) =>
          LET S == hist[1].n
              W == Last'.n
          IN  /\ hist[1].rot = 0
              /\ Last'.rot = 0
              /\ Last'.rn = W
              /\ Last'.err = ErrNone
              /\ dir'[Primary] = Raw(Preexisting(S).data \o Payload(2, W))
              /\ FileSize(dir'[Primary]) = S + W
              /\ size' = S + W
              /\ OnlyTouches({Primary})]_vars

\* A first Write has filled a resumed, non-empty file exactly to maxSize.
C5_Witness ==
    /\ Len(hist) = 2
    /\ hist[1].n > 0
    /\ hist[2].op = "Write"
    /\ hist[2].err = ErrNone
    /\ hist[1].n + hist[2].n = maxSize
    /\ size = maxSize

\* C6: NewRoller over an existing primary file of S bytes: if S >= maxSize
\* the file becomes a backup, a new empty primary file is open and the
\* recorded size is 0; if S < maxSize the file is opened as it is, no file
\* is touched and the recorded size is S.
C6_NewRollerBoundary ==
    [][(Step("NewRoller") /\ Last'.err = ErrNone /\ Exists(dir, Primary)) =>
          LET S == FileSize(dir[Primary])
          IN  /\ file' = "open"
              /\ IF S >= maxSize
                   THEN /\ Last'.rot = 1
                        /\ dir'[Primary] = EmptyFile
                        /\ size' = 0
                        /\ \E b \in Backups(dir') :
                              /\ b.k = "bak"
                              /\ dir'[b] = dir[Primary]
                              /\ OnlyTouches({Primary, b})
                   ELSE /\ Last'.rot = 0
                        /\ dir' = dir
                        /\ size' = S]_vars

\* NewRoller has rotated a primary file of exactly maxSize bytes.
C6_Witness ==
    /\ Len(hist) = 1
    /\ roller
    /\ hist[1].n = maxSize
    /\ hist[1].rot = 1

\* C7: Rotate rotates whatever the recorded size: the primary file becomes
\* a backup with its contents, an empty primary file is open, the recorded
\* size is 0 and a maintenance trigger is pending.
C7_RotateUnconditional ==
    [][(Step("Rotate") /\ Exists(dir, Primary)) =>
          /\ Last'.err = ErrNone
          /\ Last'.rot = 1
          /\ dir'[Primary] = EmptyFile
          /\ file' = "open"
          /\ size' = 0
          /\ startMill'
          /\ millCh' = MillChCap
          /\ \E b \in Backups(dir') :
                /\ b.k = "bak"
                /\ dir'[b] = dir[Primary]
                /\ OnlyTouches({Primary, b})]_vars

\* Rotate was called on an open file of recorded size 0.
C7_Witness ==
    /\ Len(hist) >= 2
    /\ Last.op = "Rotate"
    /\ hist[Len(hist) - 1].sz = 0
    /\ hist[Len(hist) - 1].op /= "Close"

\* C8: Close touches no file and keeps the recorded size, leaves no handle
\* open, and on a Roller with no open handle it returns nil and changes
\* nothing: a second Close leaves what the first left.
C8_CloseIdempotent ==
    [][Step("Close") =>
          /\ Last'.rot = 0
          /\ file' = "nil"
          /\ UNCHANGED <<dir, size, now>>
          /\ MillUnchanged
          /\ file = "nil" => Last'.err = ErrNone]_vars

\* Close was called twice in a row on a partly filled file.
C8_Witness ==
    /\ Len(hist) >= 3
    /\ Last.op = "Close"
    /\ hist[Len(hist) - 1].op = "Close"
    /\ size > 0

\* C9: a Write of at most maxSize bytes that follows a Close reopens the
\* primary file, writes p and returns len(p) and no error.
C9_WriteAfterClose ==
    (/\ Len(hist) >= 2
     /\ Last.op = "Write"
     /\ Last.n <= maxSize
     /\ hist[Len(hist) - 1].op = "Close") =>
        /\ Last.rn = Last.n
        /\ Last.err = ErrNone

\* The logical backups of a directory: a backup counts once, whether it
\* is there uncompressed, compressed or both.
Logical(d) == {TrimGz(x) : x \in Backups(d)}

\* The k logical backups of L with the newest embedded timestamps.
Newest(L, k) ==
    {x \in L : Cardinality({y \in L : timeFromName(y) > timeFromName(x)}) < k}

\* C10: with maxBackups = K > 0 and maxAge = 0, no step ever removes one
\* of the K newest logical backups of the directory, and, the millRun
\* goroutine being scheduled fairly, from some point on the directory
\* holds at most K logical backups.  Once the rotations have stopped with
\* n logical backups, the directory therefore ends with exactly the
\* min(K, n) newest of them, for good.
C10_RetentionEventually ==
    /\ [][(roller /\ maxBackups > 0 /\ maxAge = 0) =>
            Newest(Logical(dir), maxBackups) \subseteq Logical(dir')]_vars
    /\ <>[]((roller /\ maxBackups > 0 /\ maxAge = 0) =>
            Cardinality(Logical(dir)) <= maxBackups)

\* Under FairSpec, whose directories all hold Bak(0) at first: the mill
\* has removed Bak(0) and left exactly maxBackups logical backups, a
\* backup made by a rotation among them, and no pass is running or pending.
C10_Witness ==
    /\ roller
    /\ maxBackups > 0
    /\ maxAge = 0
    /\ millPc = "idle"
    /\ millCh = 0
    /\ Bak(0) \notin Logical(dir)
    /\ Cardinality(Logical(dir)) = maxBackups
    /\ \E b \in Backups(dir) : dir[b].data /= OldBackup(b).data

Range(q) == {q[i] : i \in 1..Len(q)}

\* The step is the directory scan of a maintenance pass, up to the lists.
ScanStep == millPc = "scan" /\ millPc' /= "scan"

\* C11: with maxAge = A > 0, the pass whose clock reading is now' puts on
\* its remove list every backup of the directory whose embedded timestamp
\* is before now' - A, whatever maxBackups is, and a backup it puts there
\* with a timestamp at or after now' - A is beyond the maxBackups newest;
\* the pass then removes each file of the list and ends only when the list
\* is empty.
C11_MaxAge ==
    /\ [][(ScanStep /\ maxAge > 0) =>
            LET old == {b \in Backups(dir) : timeFromName(b) < now' - maxAge}
            IN  /\ old \subseteq Range(millRm')
                /\ \A b \in Range(millRm') \ old :
                      /\ maxBackups > 0
                      /\ TrimGz(b) \notin Newest(Logical(dir), maxBackups)]_vars
    /\ [][(millPc = "run" /\ millRm' /= millRm) =>
            /\ millRm' = Tail(millRm)
            /\ Head(millRm) \notin DOMAIN dir']_vars
    /\ [](millPc = "idle" => millRm = <<>>)

\* A pass is removing a backup that is too old although it is among the
\* maxBackups newest, and has kept one made exactly at the cutoff.
C11_Witness ==
    /\ millPc = "run"
    /\ maxAge > 0
    /\ maxBackups > 0
    /\ \E b \in Range(millRm) :
          /\ timeFromName(b) < now - maxAge
          /\ TrimGz(b) \in Newest(Logical(dir), maxBackups)
    /\ \E b \in Backups(dir) \ Range(millRm) : timeFromName(b) = now - maxAge

\* The timestamps a backup name of the model can embed.
Stamps == 0..MaxTime + TZOffset

\* The uncompressed backup with timestamp t is there and holds what a
\* rotation of this Roller retired: no byte of a backup of an earlier run.
Retired(t) ==
    /\ Exists(dir, Bak(t))
    /\ \A i \in 1..Len(dir[Bak(t)].data) : dir[Bak(t)].data[i].w >= 0

\* The backup with timestamp t is there in compressed form only.
OnlyGz(t) ==
    /\ ~Exists(dir, Bak(t))
    /\ Exists(dir, Gz(t))
    /\ dir[Gz(t)].enc = "gzip"

\* A step that makes or changes a compressed backup leaves in it the whole
\* content of the uncompressed backup, gzip-encoded, and removes that one;
\* the primary file is never gzip-encoded.
CompressComplete ==
    /\ [][\A t \in Stamps :
            (Exists(dir', Gz(t)) /\ (Exists(dir, Gz(t)) => dir'[Gz(t)] /= dir[Gz(t)]))
                => /\ Exists(dir, Bak(t))
                   /\ dir'[Gz(t)] = Gzip(dir[Bak(t)])
                   /\ ~Exists(dir', Bak(t))]_vars
    /\ [](Exists(dir, Primary) => dir[Primary].enc = "raw")

NotABackup(x, f) == IsDir(f) \/ x.k \notin {"bak", "gz"}

\* C13: a step of the maintenance task leaves every entry of the directory
\* that is no backup of this log as it is, the primary file among them,
\* and makes no such entry.
C13_Frame ==
    [][(hist' = hist) =>
          /\ \A x \in DOMAIN dir :
                NotABackup(x, dir[x]) => Exists(dir', x) /\ dir'[x] = dir[x]
          /\ \A x \in DOMAIN dir' \ DOMAIN dir : ~NotABackup(x, dir'[x])]_vars

\* A pass has ended that compressed a backup and could not compress the
\* backup Bak(0), its .gz name being a directory; the other files are
\* there.
C13_Witness ==
    /\ roller
    /\ compress
    /\ millPc = "idle"
    /\ millCh = 0
    /\ {NoPrefix, NoExt, NoStamp, Primary, Bak(0)} \subseteq DOMAIN dir
    /\ Exists(dir, Gz(0))
    /\ IsDir(dir[Gz(0)])
    /\ \E t \in Stamps : OnlyGz(t)

\* The number of maintenance passes that are executing: a goroutine is in
\* a pass from the reception of a trigger to the end of millRunOnce.
Passes == IF millPc \in {"scan", "run"} THEN 1 ELSE 0

\* C14: at most one millRun goroutine has been started, no pass executes
\* unless it has been started, and at most one pass is executing.
C14_OneMill ==
    /\ millRuns <= 1
    /\ millRuns = 0 <=> millPc = "none"
    /\ millRuns = 1 <=> startMill
    /\ Passes <= millRuns

\* After NewRoller and three rotations, a pass is executing and a further
\* trigger is pending.
C14_Witness ==
    /\ Rotations(hist) >= 3
    /\ millRuns = 1
    /\ Passes = 1
    /\ millCh = MillChCap

\* C15: a call that rotates without error leaves a trigger in the channel
\* of the started millRun goroutine, whether the goroutine was idle or in
\* a pass and whether a trigger was pending or not; and, the goroutine
\* being scheduled fairly, whenever a trigger is in the channel the
\* goroutine is later on, or already, at the start of a directory scan,
\* and makes that scan: a scan starts after the rename of that rotation.
C15_NoTriggerLost ==
    /\ [][(hist' /= hist /\ Last'.rot >= 1 /\ Last'.err = ErrNone) =>
            millCh' = MillChCap /\ millRuns' = 1]_vars
    /\ (millCh = MillChCap) ~> (millPc = "scan")
    /\ (millPc = "scan") ~> (millPc \in {"idle", "run"})

\* Two calls in a row have rotated, the second while a pass was in the
\* middle of its removals, and a trigger is pending.
C15_Witness ==
    /\ Len(hist) >= 3
    /\ Last.rot >= 1
    /\ hist[Len(hist) - 1].rot >= 1
    /\ millPc = "run"
    /\ millRm /= <<>>
    /\ millCh = MillChCap

\* A trigger is pending or a pass is executing.
MillBusy == millCh > 0 \/ Passes = 1

\* C16: whatever the millRun goroutine is doing and whether or not a
\* trigger is pending, every Write, Rotate and Close can be made and
\* returns in its own step; Close changes nothing of the goroutine, its
\* trigger and its lists; and a trigger or pass that is pending or running
\* when Close has returned is run to its end, the goroutine being
\* scheduled fairly.
C16_NeverWaits ==
    /\ []((roller /\ Len(hist) < MaxCalls) =>
            /\ ENABLED Rotate
            /\ ENABLED Close
            /\ \A n \in 1..MaxSizeBound + 1 : ENABLED Write(n))
    /\ [][Step("Close") => MillUnchanged]_vars
    /\ (hist /= <<>> /\ Last.op = "Close" /\ MillBusy) ~> ~MillBusy

\* Close has returned while a pass was in the middle of its removals and
\* a further trigger was pending, after a call that rotated in that state.
C16_Witness ==
    /\ Len(hist) >= 3
    /\ Last.op = "Close"
    /\ hist[Len(hist) - 1].rot >= 1
    /\ millPc = "run"
    /\ millRm /= <<>>
    /\ millCh = MillChCap

\* C17: for every reading t the clock can give and for the Roller's value
\* of localTime and its time zone, the name backupName makes is a backup
\* name from which timeFromName parses the instant t, and so is that name
\* with the compressSuffix appended.
C17_RoundTrip ==
    \A t \in now..MaxTime :
        LET name == backupName(t, localTime)
        IN  /\ timeFromNameOK(name, FALSE)
            /\ timeFromName(name) = t
            /\ timeFromNameOK(Gz(name.t), TRUE)
            /\ timeFromName(Gz(name.t)) = t

Inside == {c \in Callers : call[c].pc \in {"body", "write", "size", "unlock"}}

\* The bytes of a Write are in one place of one file.
WrittenOnce ==
    \A x, y \in DOMAIN dir :
        \A i \in 1..Len(dir[x].data), j \in 1..Len(dir[y].data) :
            (dir[x].data[i].w > 0 /\ dir[x].data[i].w = dir[y].data[j].w)
                => x = y /\ i = j

\* C19: at most one caller is inside the locked section, and it is the
\* one that locked last; whenever no caller is inside, the handle, the
\* recorded size, the directory and the trigger are what the calls that
\* have locked so far leave when run one after the other in the order of
\* their locking, the bytes of each Write are in one place of one file,
\* and the recorded size of an open file is the length of the file.
C19_Serial ==
    /\ Cardinality(Inside) <= 1
    /\ \A c \in Inside :
          mu = c /\ order /= <<>> /\ order[Len(order)] = call[c].id
    /\ (roller /\ Inside = {}) =>
          /\ mu = 0
          /\ size = seq.size
          /\ file = seq.file
          /\ dir = seq.dir
          /\ millCh = seq.millCh
          /\ WrittenOnce
          /\ file = "open" => size = FileSize(dir[Primary])

\* A caller waits for the mutex while another, which locked after a first
\* call had rotated, has written its bytes and not yet added their number
\* to the recorded size.
C19_Witness ==
    /\ \E c, e \in Callers :
          /\ call[c].pc = "lock"
          /\ call[e].pc = "size"
          /\ call[e].rn > 0
    /\ Len(order) >= 2
    /\ Rotations(Tail(hist)) >= 1
    /\ size /= FileSize(dir[Primary])

\* C20: a call that rotates a primary file of mode M leaves a backup of
\* mode M and a primary file of mode M, and a call that makes a primary
\* file where there was none makes it with the default mode 0600.
C20_ModePreserved ==
    [][(hist' /= hist /\ Last'.err = ErrNone) =>
          /\ (Last'.rot >= 1 /\ Exists(dir, Primary)) =>
                /\ perm'[Primary] = perm[Primary]
                /\ perm'[backupName(now', localTime)] = perm[Primary]
          /\ (~Exists(dir, Primary) /\ Exists(dir', Primary)) =>
                perm'[Primary] = DefaultMode]_vars

\* C21: a Write of the v1 Logger that makes a new file, with MaxBackups =
\* K > 0 and MaxAge = 0, returns the length of p and no error and hands
\* to deleteAll exactly the old log files beyond the K newest; with fewer
\* than K old log files it hands over nothing.
C21_CleanupKeepsNewest ==
    [][(/\ Step("Write")
        /\ Last'.rot = 1
        /\ logger.MaxBackups > 0
        /\ logger.MaxAge = 0) =>
          LET old == {x \in DOMAIN dir' :
                        isLogFile(x) /\ x /= logger'.file.name}
              handed == IF Len(deleting') > Len(deleting)
                          THEN Range(deleting'[Len(deleting')])
                        ELSE {}
          IN  /\ Last'.err = ErrNone
              /\ Last'.rn = Last'.n
              /\ handed = old \ Newest(old, logger.MaxBackups)
              /\ Cardinality(old) < logger.MaxBackups =>
                    deleting' = deleting]_vars

\* C22: no log file that holds bytes written through the v1 Logger is
\* longer than MaxSize, whatever Writes and Closes were made and whether
\* the first Write resumed a file or made one.
C22_NeverBeyondMaxSize ==
    \A x \in DOMAIN dir :
        (isLogFile(x) /\ \E i \in 1..Len(dir[x].data) : dir[x].data[i].w > 0)
            => FileSize(dir[x]) <= max(logger)

\* C23: whenever the handle is open, the recorded size is the length of
\* the primary file.  NewRoller leaves it at the size of the file it
\* resumes and at 0 if it makes or rotates one, Rotate leaves it at 0, and
\* a Write adds the count the write of the file returned, be it the
\* length of p or, with an error, less, to 0 if it rotated and to the
\* recorded size if not.
C23_SizeIsLength ==
    /\ [](file = "open" => size = FileSize(dir[Primary]))
    /\ [][(Step("NewRoller") /\ Last'.err = ErrNone) =>
            size' = IF dir' = dir THEN FileSize(dir[Primary]) ELSE 0]_vars
    /\ [][Step("Rotate") => size' = 0]_vars
    /\ [][(Step("Write") /\ file' = "open") =>
            /\ size' = (IF Last'.rot = 1 THEN 0 ELSE size) + Last'.rn
            /\ Last'.rn <= Last'.n
            /\ (Last'.rn < Last'.n) = (Last'.err /= ErrNone)]_vars

\* A Write on a resumed file of one byte has returned after one of its
\* two bytes with an error.
C23_Witness ==
    /\ Len(hist) = 2
    /\ hist[1].n = 1
    /\ hist[1].rot = 0
    /\ Last.op = "Write"
    /\ Last.n = 2
    /\ Last.rn = 1
    /\ Last.err = ErrNoSpace
    /\ file = "open"
    /\ size = 2
    /\ FileSize(dir[Primary]) = 2

\* C24: the process holds at most one handle on the primary file, the one
\* of r.file: a handle is opened only when none is held, whether by a
\* rotation, for a file that is made, for one that is resumed or after
\* the opening for appending has failed.
C24_OneHandle ==
    /\ fds <= 1
    /\ fds = 1 <=> file = "open"
    /\ fds = 0 <=> file = "nil"

\* NewRoller could not open the primary file for appending and moved it
\* away, two calls have rotated since, and a handle is open.
C24_Witness ==
    /\ Len(hist) >= 3
    /\ hist[1].n > 0
    /\ hist[1].n < maxSize
    /\ hist[1].rot = 0
    /\ hist[1].sz = 0
    /\ Rotations(hist) >= 2
    /\ file = "open"
    /\ fds = 1

\* C25: with maxBackups > 0 and maxAge = 0, the remove list of a pass
\* holds both or none of an uncompressed backup and the compressed file
\* of the same timestamp, and no file of one of the maxBackups newest
\* logical backups of the directory, a pair counting as one.
C25_PairCountsOnce ==
    [][(ScanStep /\ maxBackups > 0 /\ maxAge = 0) =>
          /\ \A t \in Stamps :
                (Exists(dir, Bak(t)) /\ Exists(dir, Gz(t))) =>
                    (Bak(t) \in Range(millRm') <=> Gz(t) \in Range(millRm'))
          /\ \A x \in Range(millRm') :
                TrimGz(x) \notin Newest(Logical(dir), maxBackups)
          /\ \A x \in Backups(dir) \ Range(millRm') :
                TrimGz(x) \in Newest(Logical(dir), maxBackups)]_vars

\* A pass has put both files of a pair on its remove list and kept a
\* newer backup; the directory holds four files of three logical backups.
C25_Witness ==
    /\ millPc = "run"
    /\ maxBackups > 0
    /\ \E t \in Stamps :
          /\ Exists(dir, Bak(t))
          /\ Exists(dir, Gz(t))
          /\ {Bak(t), Gz(t)} \subseteq Range(millRm)
    /\ Cardinality(Backups(dir)) = 4
    /\ Cardinality(Logical(dir)) = 3

\* C26: the lists a pass builds have no file in common; the compress list
\* holds, if compress is set, exactly the files of the directory without
\* the compressed suffix that the count rule and the age rule keep, and
\* nothing if it is not set; and the pass compresses no file before it is
\* through its remove list.
C26_ListsConsistent ==
    /\ [][ScanStep =>
            LET kept == {x \in Backups(dir) :
                           /\ maxBackups > 0 =>
                                 TrimGz(x) \in Newest(Logical(dir), maxBackups)
                           /\ maxAge > 0 =>
                                 ~(timeFromName(x) < now' - maxAge)}
            IN  /\ Range(millRm') \cap Range(millCp') = {}
                /\ Range(millCp') =
                      IF compress THEN {x \in kept : x.k /= "gz"} ELSE {}
                /\ Range(millRm') = Backups(dir) \ kept]_vars
    /\ [][(millPc = "run" /\ millCp' /= millCp) =>
            millRm = <<>> /\ millCp' = Tail(millCp)]_vars
    /\ [][(millPc = "run" /\ millRm' /= millRm) =>
            UNCHANGED millCp /\ millRm' = Tail(millRm)]_vars

\* A pass is removing a compressed backup and will then compress a newer
\* one.
C26_Witness ==
    /\ millPc = "run"
    /\ compress
    /\ millCp /= <<>>
    /\ \E x \in Range(millRm) : x.k = "gz"
    /\ \E x \in Range(millCp) : \A y \in Range(millRm) :
          timeFromName(x) > timeFromName(y)

\* C27: with maxBackups = 0, maxAge = 0 and compress = false, no step of
\* the maintenance task lists the directory, changes an entry of it or
\* its mode, reads the clock or changes a field of the Roller; its lists
\* stay empty and each pass ends in the step it starts in.
C27_NoPolicyNoOp ==
    /\ [][(hist' = hist /\ maxBackups = 0 /\ maxAge = 0 /\ ~compress) =>
            UNCHANGED <<dir, perm, now, readDirs, millRm, millCp, size, file,
                        fds, roller, startMill, millRuns>>]_vars
    /\ []((maxBackups = 0 /\ maxAge = 0 /\ ~compress) =>
            /\ readDirs = 0
            /\ millRm = <<>>
            /\ millCp = <<>>
            /\ millPc /= "run")

\* Without any policy, two passes have run after rotations over a
\* directory that holds two old backups and other files, and all of them
\* are there.
C27_Witness ==
    /\ maxBackups = 0
    /\ maxAge = 0
    /\ ~compress
    /\ passes >= 2
    /\ millPc = "idle"
    /\ millCh = 0
    /\ Rotations(hist) >= 2
    /\ {Bak(0), Bak(1), NoPrefix, NoExt, NoStamp, Gz(0)} \subseteq DOMAIN dir

\* The number of calls of mill so far: one by NewRoller and one by each
\* rotation.
Posted == IF roller THEN 1 + Rotations(hist) ELSE 0

\* C28: at most one trigger is pending; a call that posts while one is
\* pending leaves one pending and returns, and such a call can always be
\* made; a pass starts by taking the pending trigger and leaves none, so
\* that whatever was posted during a pass starts one further pass; and
\* the passes started and the trigger pending are together no more than
\* the triggers posted.
C28_SingleSlot ==
    /\ [](millCh \in 0..MillChCap)
    /\ [](passes + millCh <= Posted)
    /\ [][(hist' /= hist /\ millCh = MillChCap) => millCh' = MillChCap]_vars
    /\ []((roller /\ millCh = MillChCap /\ Len(hist) < MaxCalls) =>
            ENABLED Rotate)
    /\ [][passes' /= passes =>
            /\ passes' = passes + 1
            /\ millCh = MillChCap
            /\ millCh' = 0]_vars

\* NewRoller and three rotations have posted four triggers; the one pass
\* started so far is still executing and one trigger is pending.
C28_Witness ==
    /\ Posted >= 4
    /\ passes = 1
    /\ Passes = 1
    /\ millCh = MillChCap
    /\ Len(hist) >= 4
    /\ \A i \in 2..Len(hist) : hist[i].rot = 1

\* No millRun goroutine has been started and no trigger posted or taken.
NoMill ==
    /\ ~startMill
    /\ millRuns = 0
    /\ millPc = "none"
    /\ millCh = 0
    /\ passes = 0

\* C29 as stated: as long as no call has rotated, no millRun goroutine
\* exists and no pass is triggered or run, also once NewRoller has built
\* the Roller over an absent primary file or one it resumes.
C29_LazyStart == Rotations(hist) = 0 => NoMill

\* C29 amended: the goroutine is started at construction.  Before
\* NewRoller has built a Roller there is no goroutine and no trigger;
\* every NewRoller that succeeds starts the goroutine and leaves one
\* trigger pending, whether it makes the primary file, resumes it or
\* rotates it; and no later call starts a goroutine.
C29_StartedAtConstruction ==
    /\ [](~roller => NoMill)
    /\ [][(Step("NewRoller") /\ Last'.err = ErrNone) =>
            /\ startMill'
            /\ millRuns' = 1
            /\ millPc' = "idle"
            /\ millCh' = MillChCap
            /\ passes' = 0]_vars
    /\ [](roller => startMill /\ millRuns = 1)
    /\ [][roller => UNCHANGED <<startMill, millRuns>>]_vars

\* NewRoller has resumed a partly filled primary file without rotating,
\* no call has followed, and the pass it triggered has removed an old
\* backup.
C29_Witness ==
    /\ Len(hist) = 1
    /\ roller
    /\ hist[1].n > 0
    /\ hist[1].rot = 0
    /\ size = hist[1].n
    /\ passes = 1
    /\ millPc = "idle"
    /\ maxBackups > 0
    /\ Cardinality(Backups(dir)) = maxBackups
    /\ ~Exists(dir, Bak(0))

\* The content c of the backup with time stamp t can be read in directory
\* d: from the uncompressed file, or from a compressed file that was
\* written to its end and closed.
Available(d, t, c) ==
    \/ Exists(d, Bak(t)) /\ d[Bak(t)].data = c
    \/ Exists(d, Gz(t)) /\ d[Gz(t)].enc = "gzip" /\ d[Gz(t)].data = c

\* The step is a call of compressLogFile, together with its return if it
\* is the last one.
CompressStep ==
    /\ hist' = hist
    /\ millRm = <<>>
    /\ millCp /= <<>>
    /\ millPc \in {"run", "create", "copy", "flush", "gzclose", "fclose",
                   "remove"}

\* C30: no call of compressLogFile, succeeding or failing, loses a
\* backup: what the source holds before the call is, after it, in the
\* source or in a destination that is written to its end and closed; and
\* the source is removed only by the last call, the destination being
\* written to its end and closed.
C30_CompressNeverLoses ==
    [][CompressStep /\ Exists(dir, CompressSrc)
          /\ dir[CompressSrc].data /= <<>> =>
          /\ Available(dir', CompressSrc.t, dir[CompressSrc].data)
          /\ ~Exists(dir', CompressSrc) =>
                /\ millPc = "remove"
                /\ Exists(dir, CompressDst)
                /\ dir[CompressDst].enc = "gzip"]_vars

\* compressLogFile returns from the step, having opened the destination.
LateReturn ==
    /\ CompressStep
    /\ millPc \in {"copy", "flush", "gzclose", "fclose", "remove"}
    /\ millCp' = Tail(millCp)

\* It returns without having removed the source: a call has failed.
LateFailure ==
    LateReturn /\ ~(millPc = "remove" /\ ~Exists(dir', CompressSrc))

\* The source is in place as it was.
SourceKept ==
    Exists(dir, CompressSrc) =>
        /\ Exists(dir', CompressSrc)
        /\ dir'[CompressSrc] = dir[CompressSrc]

\* C31 as stated: if compressLogFile fails at the copy, the flush, a
\* close or the removal of the source, it returns an error, the
\* destination is gone and the source is in place with its content.
C31_FailureRemovesDst ==
    [][LateFailure =>
          /\ errCompress' = ErrCompress
          /\ ~Exists(dir', CompressDst)
          /\ SourceKept]_vars

\* C31, amended: if compressLogFile fails at the copy, the flush, a close
\* or the removal of the source, it returns an error and the source is
\* in place with its content; the destination is gone, or, its removal
\* having failed too, it is left as it was.
C31_FailureTriesToRemoveDst ==
    [][LateFailure =>
          /\ errCompress' = ErrCompress
          /\ \/ ~Exists(dir', CompressDst)
             \/ /\ Exists(dir, CompressDst)
                /\ dir'[CompressDst] = dir[CompressDst]
          /\ SourceKept]_vars

\* compressLogFile has failed and a backup is in place without a
\* compressed file of its name.
C31_Witness ==
    /\ errCompress = ErrCompress
    /\ \E x \in DOMAIN dir : x.k = "bak" /\ ~Exists(dir, Gz(x.t))

\* The step is the last call of a compressLogFile that succeeds.
CompressSuccess ==
    /\ CompressStep
    /\ millPc = "remove"
    /\ errCompress' = ErrNone
    /\ millCp' = Tail(millCp)

\* The step is the opening of the destination, which succeeds.
CompressCreated == CompressStep /\ millPc = "create" /\ millPc' = "copy"

\* C32: a destination left by an interrupted run makes no difference.
\* The pass that finds the old backup Bak(0) next to a destination of its
\* name, empty or not, opens the destination as an empty file, as it
\* would a new one, and when compressLogFile succeeds the directory holds
\* the finished compressed backup and not the source: what it holds when
\* no destination was there before.
C32_ResumeIsIdempotent ==
    [][/\ CompressCreated =>
             dir' = Put(Remove(dir, CompressDst), CompressDst, Part(<<>>))
       /\ CompressSuccess /\ CompressSrc = Bak(0) =>
             /\ ~Exists(dir', Bak(0))
             /\ Exists(dir', Gz(0))
             /\ dir'[Gz(0)] = Gzip(OldBackup(Bak(0)))]_vars

\* The pass has listed the old backup for compression and is about to
\* open the destination, which holds bytes of an interrupted run.
C32_Witness ==
    /\ InCompress("create")
    /\ CompressSrc = Bak(0)
    /\ Exists(dir, Gz(0))
    /\ dir[Gz(0)].enc = "part"
    /\ dir[Gz(0)].data /= <<>>

\* The errors of the maintenance pass.
MillErrors == {ErrRemove, ErrOpenLog, ErrStatLog, ErrOpenGz, ErrCompress}

\* The step is one of a pass that has built its lists.
PassStep ==
    /\ hist' = hist
    /\ millPc \in {"run", "create", "copy", "flush", "gzclose", "fclose",
                   "remove"}

\* The list loses its first file or stays.
Shortened(l, m) == m = l \/ (l /= <<>> /\ m = Tail(l))

\* The goroutine of the mill can take a step, or waits for a trigger.
MillAlive ==
    \/ millPc = "none"
    \/ millPc = "idle" /\ millCh = 0
    \/ ENABLED (MillRecv \/ MillScan \/ MillRemove \/ compressLogFileCalls
                  \/ MillReturn)

\* C33: a pass is best-effort per file.  Whether a removal or a
\* compression fails or not, the step takes the one file off its list and
\* leaves the other files on the lists, the removals first; the pass ends
\* only with both lists empty; the goroutine can always go on or wait for
\* the next trigger; and no call of the API returns an error of the pass.
C33_BestEffort ==
    [][/\ PassStep =>
             /\ Shortened(millRm, millRm')
             /\ Shortened(millCp, millCp')
             /\ millRm /= <<>> => millCp' = millCp
             /\ millPc' \in {"idle", "done"} =>
                   millRm' = <<>> /\ millCp' = <<>>
       /\ MillAlive
       /\ \A i \in 1..Len(hist') : hist'[i].err \notin MillErrors]_vars

\* A file of the pass has failed and the pass goes on with the others.
C33_Witness ==
    /\ millPc = "run"
    /\ millErr \in MillErrors
    /\ millRm /= <<>> \/ millCp /= <<>>

\* The errors of a rotation.
RotateErrors == {ErrFileClose, ErrMkdir, ErrRename, ErrOpenNew}

\* No file of d holds a byte of call number id.
NothingOf(d, id) ==
    \A x \in DOMAIN d : \A i \in 1..Len(d[x].data) : d[x].data[i].w /= id

\* C34: a Write whose rotation fails returns 0 and the error of the
\* rotation; no file holds a byte of its argument, the recorded size is
\* what it was, and no trigger is posted and no goroutine started.
C34_FailedRotationWritesNothing ==
    [][Step("Write") /\ Last'.err \in RotateErrors =>
          /\ OverMaxSize(size, Last'.n)
          /\ Last'.rn = 0
          /\ Last'.rot = 0
          /\ NothingOf(dir', Len(hist'))
          /\ size' = size
          /\ millCh' = millCh
          /\ startMill' = startMill
          /\ millPc' = millPc]_vars

\* A Write has failed in its rotation after the primary file was renamed.
C34_Witness ==
    /\ hist /= <<>>
    /\ Last.op = "Write"
    /\ Last.err = ErrOpenNew
    /\ ~Exists(dir, Primary)

\* The step is a call that went through openNew with a primary file in
\* place and got past the rename.
Relocates ==
    /\ \E op \in {"NewRoller", "Write", "Rotate"} : Step(op)
    /\ Exists(dir, Primary)
    /\ Last'.rot = 1 \/ Last'.err = ErrOpenNew

C36_WriteNotSplit ==
    [][Step("Write") =>
          /\ \A x \in DOMAIN dir' \ {Primary} :
                \A i \in 1..Len(dir'[x].data) :
                    dir'[x].data[i].w /= Len(hist')
          /\ Last'.rn = 0 => NothingOf(dir', Len(hist'))
          /\ Last'.rn > 0 =>
                /\ Exists(dir', Primary)
                /\ dir'[Primary].data /= <<>>
                /\ dir'[Primary].data[Len(dir'[Primary].data)] =
                       [w |-> Len(hist'), n |-> Last'.rn]
                /\ \A i \in 1..Len(dir'[Primary].data) - 1 :
                       dir'[Primary].data[i].w /= Len(hist')]_vars

\* A Write has rotated a file that held bytes and has written its own to
\* the new one.
C36_Witness ==
    /\ hist /= <<>>
    /\ Last.op = "Write"
    /\ Last.rot = 1
    /\ Last.rn > 0
    /\ \E x \in Backups(dir) : dir[x].data /= <<>> /\ x.t >= 1

\* The files of d that hold the bytes that call number id wrote.
Holding(d, id) ==
    {x \in DOMAIN d : \E i \in 1..Len(d[x].data) : d[x].data[i].w = id}

\* Every byte that a Write has accepted is in exactly one file.
EveryByteOnce ==
    \A i \in 1..Len(hist) :
        hist[i].op = "Write" /\ hist[i].rn > 0 =>
            Cardinality(Holding(dir, i)) = 1

\* C37: rotation destroys no logged data.  With no retention and no
\* compression, whatever the clock reads, every byte accepted by a Write
\* is in exactly one file, and a call that rotates an existing primary
\* file adds one backup to the directory.
C37_RotationKeepsData ==
    [][/\ EveryByteOnce'
       /\ \A op \in {"NewRoller", "Write", "Rotate"} :
             Step(op) /\ Last'.rot = 1 /\ Exists(dir, Primary) =>
                 Cardinality(Backups(dir')) = Cardinality(Backups(dir)) + 1]_vars

\* C38: the Roller recovers from a failed rotation.  A Write of at most
\* maxSize bytes that follows a Write or a Rotate whose rotation failed
\* and left no open handle, and in which no system call fails, returns no error, has
\* the primary file open and its bytes at the end of it, whatever the
\* recorded size and the length of p.
C38_RecoversAfterFailedRotation ==
    [][/\ Step("Write")
       /\ hist /= <<>>
       /\ Last.op \in {"Write", "Rotate"}
       /\ Last.err \in RotateErrors
       /\ file = "nil"
       /\ ~WriteTooLong(Last'.n)
       /\ Last'.err \notin RotateErrors
       => /\ Last'.err = ErrNone
          /\ Last'.rn = Last'.n
          /\ file' = "open"
          /\ Exists(dir', Primary)
          /\ Holding(dir', Len(hist')) = {Primary}]_vars

\* ---------------------------------------------------- retention by age
\* The offsets of time.Local the age limit is checked in: west of UTC,
\* UTC itself and east of UTC.
ZoneOffsets == {-2 * TZOffset, 0, TZOffset}

\* The policies that retain by age only, in UTC and in local time.
AgePolicies ==
    [maxBackups : {0}, maxAge : {MaxAgeBound}, compress : BOOLEAN,
     localTime : BOOLEAN]

\* A Roller that retains by age over a directory without backups: every
\* backup there is was made by a rotation of this Roller.
InitAge ==
    /\ InitZone({"foo.log"}, {MaxSizeBound}, AgePolicies,
                InitDirs({}, {MaxSizeBound - 1}), ZoneOffsets)
    /\ perm = [x \in DOMAIN dir |-> DefaultMode]
    /\ umask = {}
    /\ faults = {}
    /\ logger = NoLogger
    /\ deleting = <<>>

AgeSpec == InitAge /\ [][Next]_vars

\* The names, plain and compressed, of the backup a rotation makes at T.
MadeAt(T) ==
    {backupName(T, localTime), Gz(backupName(T, localTime).t)}

\* C39: with maxAge > 0 and no limit by count, for both values of
\* localTime and every offset of the time zone, the pass whose clock
\* reading is now' leaves off its remove list the backup of a rotation at
\* instant T when now' < T + maxAge, and puts it on the list when
\* now' > T + maxAge.
C39_AgeNeverPremature ==
    [][(ScanStep /\ maxAge > 0 /\ maxBackups = 0) =>
          \A T \in 0..MaxTime : \A b \in MadeAt(T) \cap DOMAIN dir :
              /\ now' < T + maxAge => b \notin Range(millRm')
              /\ now' > T + maxAge => b \in Range(millRm')]_vars

\* The step is a removal of the loop over `remove` that deletes a file.
Deletes ==
    /\ millPc = "run"
    /\ millRm /= <<>>
    /\ millRm' = Tail(millRm)
    /\ Exists(dir, Head(millRm))
    /\ ~Exists(dir', Head(millRm))

\* The step is a rotation, made while a pass is past its scan, that moves
\* the primary file to the backup name of its clock reading.
RotatesInPass ==
    /\ Step("Write") \/ Step("Rotate")
    /\ Last'.rot = 1
    /\ Exists(dir, Primary)
    /\ millPc \notin {"none", "idle", "scan"}

\* The policy keeps the backup f of the directory d at the instant t.
PolicyKeeps(f, d, t) ==
    /\ maxBackups > 0 => TrimGz(f) \in Newest(Logical(d), maxBackups)
    /\ maxAge > 0 => ~(timeFromName(f) < t - maxAge)

\* No pass deletes a file the policy keeps at the moment of the removal.
NoPrematureDelete ==
    [][Deletes => ~PolicyKeeps(Head(millRm), dir, now)]_vars

\* C40: a pass never deletes a file that, in the directory and at the
\* clock reading of that moment, is among the maxBackups newest logical
\* backups and not older than maxAge; and the backup a rotation makes
\* after the scan of a running pass is on neither list of that pass.
C40_PassKeepsWhatPolicyKeeps ==
    /\ NoPrematureDelete
    /\ [][RotatesInPass =>
            /\ Exists(dir', backupName(now', localTime))
            /\ backupName(now', localTime) \notin
                   Range(millRm') \cup Range(millCp')]_vars
====
